---- MODULE Spec2Model ----
(***************************************************************************)
(* Tag Input Control: the Tag value object (Tag.ts), the resolution step   *)
(* of TagManagerService.SearchByName and the attach path of                *)
(* TagManagerService.Add together with the control's event handlers.       *)
(*                                                                         *)
(* Three specifications share the variables:                               *)
(*   SpecTag      the Tag class alone (constructor, Translate)             *)
(*   SpecResolve  the sort/reduce of SearchByName on arbitrary inputs      *)
(*   Spec         the control and the service against a backend            *)
(***************************************************************************)
EXTENDS Integers, Sequences, FiniteSets, TLC

VARIABLES
    \* ---- Tag.ts under test (SpecTag)
    tag,            \* the Tag object, or NoTag before construction
    tagCall,        \* the last call made (SpecTag, SpecUpdate), with its arguments
    \* ---- the resolution step (SpecResolve)
    tags,           \* SearchByName: let tags (fresh tags)
    translatedTags, \* SearchByName: let translatedTags
    allTags,        \* SearchByName: let allTags (the resolved list)
    runs,           \* how many times the resolution ran on these inputs
    whitelist,      \* _tagify.settings.whitelist
    \* ---- TagManagerService fields
    languageLCID,   \* _languageLCID
    addedTags,      \* _addedTags (undefinedList until first assigned)
    entitySetName,  \* _entitySetName
    manyToManyRelationshipName, \* _manyToManyRelationshipName
    intersectEntityName,        \* _intersectEntityName
    \* ---- TagInputControl fields
    AutocompleteActivationThreshold, \* context.parameters.AutocompleteActivationThreshold
    initialized,    \* _initialized
    currentState,   \* _currentState: "" or "error"
    timers,         \* window.setTimeout callbacks of displayUserMessage not yet run
    \* ---- the asynchronous calls in flight, one per handler
    pc,             \* per handler: "idle" or the request it awaits
    req,            \* per handler: the arguments of the request it awaits
    local,          \* per handler: its parameters and local variables
    addLog,         \* what the call of Add that ended in the last step did, if one did
    removeLog,      \* what the call of Remove that ended in the last step did, if one did
    \* ---- the backend
    tagRows,        \* rows of eax_tag
    links           \* ids of the tags related to the owning record

tagVars == <<tag, tagCall>>
resolveVars == <<tags, translatedTags, allTags, runs, whitelist>>
serviceVars == <<languageLCID, addedTags>>
metadataVars == <<entitySetName, manyToManyRelationshipName, intersectEntityName>>
controlVars == <<initialized, currentState, timers>>
configVars == <<AutocompleteActivationThreshold>>
processVars == <<pc, req, local, addLog, removeLog>>
backendVars == <<tagRows, links>>
programVars == <<metadataVars, controlVars, configVars, processVars, backendVars>>
vars == <<tagVars, resolveVars, serviceVars, programVars>>

(***************************************************************************)
(* Strings.  A locale string is a sequence of characters so that           *)
(* toLowerCase and split('-') are computed, not assumed.                   *)
(***************************************************************************)
LowerCaseOf ==
    ("E" :> "e") @@ ("N" :> "n") @@ ("S" :> "s") @@ ("U" :> "u") @@
    ("M" :> "m") @@ ("X" :> "x") @@ ("G" :> "g") @@ ("B" :> "b")

\* String.prototype.toLowerCase
toLowerCase(s) ==
    [i \in 1..Len(s) |-> IF s[i] \in DOMAIN LowerCaseOf THEN LowerCaseOf[s[i]] ELSE s[i]]

\* s.split('-')[0]: the text before the first '-', the whole string if none
SplitFirst(s) ==
    LET dashes == {i \in 1..Len(s) : s[i] = "-"}
    IN  IF dashes = {} THEN s
        ELSE SubSeq(s, 1, (CHOOSE i \in dashes : \A j \in dashes : i <= j) - 1)

\* JavaScript undefined, for a string field held as a character sequence
undefinedLcid == <<"undefined">>
\* JavaScript undefined, for a field held as a plain string
undefined == "undefined"
\* an array field that was never assigned
undefinedList == <<[kind |-> "undefined"]>>

NoTag == [kind |-> "none"]

(***************************************************************************)
(* Tag.ts                                                                  *)
(***************************************************************************)
\* Tag.CalculatePreference: compares this.lcid with userlcid as given
CalculatePreference(lcid, userlcid) ==
    IF lcid = userlcid THEN 1
    ELSE IF SplitFirst(lcid) = SplitFirst(userlcid) THEN 2
    ELSE 3

\* new Tag(name, lcid, scope, userlcid, persisted, tagId, recordId)
NewTag(name, lcid, scope, userlcid, persisted, tagId, recordId) ==
    [ kind         |-> "tag",
      value        |-> name,
      name         |-> name,
      scope        |-> scope,
      lcid         |-> toLowerCase(lcid),
      recordId     |-> recordId,
      id           |-> tagId,
      persisted    |-> persisted,
      originallcid |-> undefinedLcid,
      preference   |-> CalculatePreference(toLowerCase(lcid), userlcid) ]

\* Tag.Translate(name, lcid, userlcid)
Translate(t, name, lcid, userlcid) ==
    [ t EXCEPT !.name = name,
               !.value = name,
               !.originallcid = t.lcid,
               !.lcid = toLowerCase(lcid),
               !.preference = CalculatePreference(toLowerCase(lcid), userlcid) ]

(***************************************************************************)
(* SpecTag: the Tag class on its own.  One Tag is constructed from         *)
(* arguments drawn from the sets below and then translated any number of   *)
(* times.                                                                  *)
(***************************************************************************)
LangSubtags == { <<"e","n">>, <<"E","N">>, <<"e","s">> }
RegionSubtags == { <<"u","s">>, <<"U","S">>, <<"m","x">> }
\* locale strings in lower and mixed case, with and without a region
LocaleStrings ==
    { l \o <<"-">> \o r : l \in LangSubtags, r \in RegionSubtags } \cup LangSubtags
TagNames == { "Sales", "Ventas" }
TagIds == { "A", "B" }
defaultScope == "default"
entityId == "R"

NoCall == [op |-> "none"]

\* context.parameters.AutocompleteActivationThreshold.raw when the property is
\* not configured
NoThreshold == [kind |-> "null"]

\* the control and the backend are not part of this specification
ProgramIdle ==
    /\ entitySetName = undefined
    /\ manyToManyRelationshipName = undefined
    /\ intersectEntityName = undefined
    /\ initialized = FALSE
    /\ currentState = ""
    /\ timers = 0
    /\ AutocompleteActivationThreshold = NoThreshold
    /\ pc = <<>>
    /\ req = <<>>
    /\ local = <<>>
    /\ addLog = <<>>
    /\ removeLog = <<>>
    /\ tagRows = {}
    /\ links = {}

InitTag ==
    /\ ProgramIdle
    /\ tag = NoTag
    /\ tagCall = NoCall
    /\ tags = <<>>
    /\ translatedTags = <<>>
    /\ allTags = <<>>
    /\ runs = 0
    /\ whitelist = <<>>
    /\ languageLCID = <<>>
    /\ addedTags = undefinedList

\* new Tag(...)
TagConstruct ==
    /\ tag = NoTag
    /\ \E name \in TagNames, lcid \in LocaleStrings, userlcid \in LocaleStrings,
          persisted \in BOOLEAN, tagId \in {"A", undefined} :
        /\ tag' = NewTag(name, lcid, defaultScope, userlcid, persisted, tagId, entityId)
        /\ tagCall' = [op |-> "new", name |-> name, lcid |-> lcid, userlcid |-> userlcid]
    /\ UNCHANGED <<resolveVars, serviceVars, programVars>>

\* tag.Translate(...)
TagTranslate ==
    /\ tag # NoTag
    /\ \E name \in TagNames, lcid \in LocaleStrings, userlcid \in LocaleStrings :
        /\ tag' = Translate(tag, name, lcid, userlcid)
        /\ tagCall' = [op |-> "Translate", name |-> name, lcid |-> lcid, userlcid |-> userlcid]
    /\ UNCHANGED <<resolveVars, serviceVars, programVars>>

NextTag == TagConstruct \/ TagTranslate

SpecTag == InitTag /\ [][NextTag]_vars

\* The rank of locale L for viewer locale V, comparing after case normalisation
LocaleRank(L, V) ==
    IF toLowerCase(L) = toLowerCase(V) THEN 1
    ELSE IF SplitFirst(toLowerCase(L)) = SplitFirst(toLowerCase(V)) THEN 2
    ELSE 3

\* C4: a constructed Tag's preference is 1 when its locale and the viewer locale
\* are identical after case normalisation, 2 when only the language subtag
\* matches and 3 otherwise, for lower- and mixed-case arguments alike.
C4_ConstructedRank ==
    tagCall.op = "new" => tag.preference = LocaleRank(tagCall.lcid, tagCall.userlcid)

\* C7: Translate(newName, newLocale, viewerLocale) leaves name = value = newName,
\* lcid = lower-cased newLocale, originallcid = the locale before the call and
\* preference = the rank of the new locale for viewerLocale; id, scope, persisted
\* and recordId are unchanged.
C7_Translate ==
    [][ tagCall'.op = "Translate" =>
          /\ tag'.name = tagCall'.name
          /\ tag'.value = tagCall'.name
          /\ tag'.lcid = toLowerCase(tagCall'.lcid)
          /\ tag'.originallcid = tag.lcid
          /\ tag'.preference = LocaleRank(tagCall'.lcid, tagCall'.userlcid)
          /\ tag'.id = tag.id
          /\ tag'.scope = tag.scope
          /\ tag'.persisted = tag.persisted
          /\ tag'.recordId = tag.recordId ]_vars

\* C7 without the preference: the fields Translate assigns and the ones it keeps
C7_TranslateFields ==
    [][ tagCall'.op = "Translate" =>
          /\ tag'.name = tagCall'.name
          /\ tag'.value = tagCall'.name
          /\ tag'.lcid = toLowerCase(tagCall'.lcid)
          /\ tag'.originallcid = tag.lcid
          /\ tag'.preference = CalculatePreference(tag'.lcid, tagCall'.userlcid)
          /\ tag'.id = tag.id
          /\ tag'.scope = tag.scope
          /\ tag'.persisted = tag.persisted
          /\ tag'.recordId = tag.recordId ]_vars

(***************************************************************************)
(* TagManagerService.SearchByName: the resolution step                     *)
(*   tags.concat(translatedTags).sort(SetPreferenceOrder).reduce(...)      *)
(***************************************************************************)
\* SetPreferenceOrder with the two results exchanged (sorts descending)
SetPreferenceOrder_Descending(tag1, tag2) ==
    IF tag1 = NoTag \/ tag2 = NoTag THEN 0
    ELSE IF tag1.preference > tag2.preference THEN 0 - 1
    ELSE IF tag1.preference < tag2.preference THEN 1
    ELSE 0

\* TagManagerService.SetPreferenceOrder (a Tag of the lists is never null)
SetPreferenceOrder(tag1, tag2) ==
    IF tag1 = NoTag \/ tag2 = NoTag THEN 0
    ELSE IF tag1.preference > tag2.preference THEN 1
    ELSE IF tag1.preference < tag2.preference THEN 0 - 1
    ELSE 0

\* a sort that is not stable: x goes in front of the elements it compares equal to
InsertOrdered_BeforeEqual(sorted, x) ==
    LET after == {i \in 1..Len(sorted) : SetPreferenceOrder(sorted[i], x) >= 0}
        k == IF after = {} THEN Len(sorted) + 1
             ELSE CHOOSE i \in after : \A j \in after : i <= j
    IN  SubSeq(sorted, 1, k - 1) \o <<x>> \o SubSeq(sorted, k, Len(sorted))

\* Array.prototype.sort inserts x behind every element that does not compare
\* greater than it: the sort is stable (ECMAScript 2019, 22.1.3.27)
InsertOrdered(sorted, x) ==
    LET after == {i \in 1..Len(sorted) : SetPreferenceOrder(sorted[i], x) > 0}
        k == IF after = {} THEN Len(sorted) + 1
             ELSE CHOOSE i \in after : \A j \in after : i <= j
    IN  SubSeq(sorted, 1, k - 1) \o <<x>> \o SubSeq(sorted, k, Len(sorted))

\* the candidates left in concatenation order (the sort call missing)
SortByPreference_Unsorted(s) == s

RECURSIVE SortByPreference(_)
SortByPreference(s) ==
    IF s = <<>> THEN <<>>
    ELSE InsertOrdered(SortByPreference(SubSeq(s, 1, Len(s) - 1)), s[Len(s)])

\* the attached tags searched by name instead of by id
IsAdded_ByName(added, item) == \E i \in 1..Len(added) : added[i].name = item.name

\* this._addedTags.find(i => i.id === item.id) != null
IsAdded(added, item) == \E i \in 1..Len(added) : added[i].id = item.id

\* the kept entries searched by name only
IsExisting_NameOnly(acc, item) == \E i \in 1..Len(acc) : acc[i].name = item.name

\* acc.find(e => e.name === item.name || e.id === item.id) != null
IsExisting(acc, item) ==
    \E i \in 1..Len(acc) : acc[i].name = item.name \/ acc[i].id = item.id

\* the reducer callback of SearchByName
ReduceStep(acc, item, added) ==
    IF ~IsAdded(added, item)
    THEN IF ~IsExisting(acc, item) THEN Append(acc, item) ELSE acc
    ELSE acc

RECURSIVE Reduce(_, _, _)
Reduce(s, acc, added) ==
    IF s = <<>> THEN acc
    ELSE Reduce(Tail(s), ReduceStep(acc, Head(s), added), added)

\* the candidates in the order the reducer sees them
SortedCandidates(fresh, translated) == SortByPreference(fresh \o translated)

Resolve(fresh, translated, added) ==
    Reduce(SortedCandidates(fresh, translated), <<>>, added)

\* the reducer also recording every offered tag in this._addedTags
SearchResolve_MarksAdded ==
    /\ allTags' = Resolve(tags, translatedTags, addedTags)
    /\ addedTags' = addedTags \o allTags'
    /\ UNCHANGED <<tags, translatedTags>>

\* lines 125-138 as one step of the service: the result is a new array, the
\* fetched lists and this._addedTags are only read
SearchResolve ==
    /\ allTags' = Resolve(tags, translatedTags, addedTags)
    /\ UNCHANGED <<tags, translatedTags, addedTags>>

(***************************************************************************)
(* SpecResolve: the resolution step on every combination of fetched tags,  *)
(* fetched translations and attached tags within the bounds, run MaxRuns   *)
(* times on the same inputs.                                               *)
(***************************************************************************)
MaxTranslated == 2
MaxAttached == 1
MaxRuns == 2

\* the viewer locale as the host reports it (window.navigator.language)
ConfiguredLCID == <<"e","s","-","M","X">>
\* constructor: this._languageLCID = languageLCID.toLowerCase()
ServiceLCID(configured) == toLowerCase(configured)

\* locales of backend rows: the viewer's, the viewer's language elsewhere, another
RowLcids == { <<"e","s","-","m","x">>, <<"e","s","-","u","s">>, <<"e","n","-","u","s">> }

NameIndex == ("Sales" :> 1) @@ ("Ventas" :> 2)
\* both queries end in orderBy('eax_name')
OrderedByName(rows) ==
    \A i \in 1..Len(rows), j \in 1..Len(rows) :
        i < j => NameIndex[rows[i].name] <= NameIndex[rows[j].name]

DistinctIds(rows) ==
    \A i \in 1..Len(rows), j \in 1..Len(rows) : i # j => rows[i].id # rows[j].id

SeqsUpTo(S, n) == UNION { [1..k -> S] : k \in 0..n }

\* constructor, line 82: the language code is the text before the first '-'
LanguageCode(lcid) == SplitFirst(lcid)

\* OData contains(field, text)
Contains(s, text) ==
    \E i \in 1..(Len(s) - Len(text) + 1) : SubSeq(s, i, i + Len(text) - 1) = text

\* rows of eax_tag: the primary key eax_tagid is present and unique
TagRows == [name : TagNames, lcid : RowLcids, id : TagIds]
\* rows of eax_tagtranslation that pass the locale filter of lines 162-165;
\* eax_Tag.eax_tagid may be absent
TranslationRows(userlcid) ==
    [ name : TagNames,
      lcid : {l \in RowLcids : l = userlcid \/ Contains(l, LanguageCode(userlcid))},
      id   : TagIds \cup {undefined} ]

\* line 121: entities.map(e => new Tag(e.eax_name, e.eax_languagelcid, e.eax_scope, lcid, true, e.eax_tagid))
MapTags(rows, userlcid) ==
    [i \in 1..Len(rows) |->
        NewTag(rows[i].name, rows[i].lcid, defaultScope, userlcid, TRUE, rows[i].id, undefined)]

\* line 169: the translation query selects eax_tagscope, so e.eax_scope is undefined
MapTranslations(rows, userlcid) ==
    [i \in 1..Len(rows) |->
        NewTag(rows[i].name, rows[i].lcid, undefined, userlcid, TRUE, rows[i].id, undefined)]

\* an attached tag as GetAllByRecordId builds it (line 220)
AttachedTag(id, userlcid) ==
    NewTag("Sales", userlcid, defaultScope, userlcid, TRUE, id, entityId)

InitResolve ==
    /\ ProgramIdle
    /\ tag = NoTag
    /\ tagCall = NoCall
    /\ languageLCID = ServiceLCID(ConfiguredLCID)
    /\ \E rows \in SeqsUpTo(TagRows, Cardinality(TagIds)) :
        /\ DistinctIds(rows)
        /\ OrderedByName(rows)
        /\ tags = MapTags(rows, languageLCID)
    /\ \E rows \in SeqsUpTo(TranslationRows(languageLCID), MaxTranslated) :
        /\ OrderedByName(rows)
        /\ translatedTags = MapTranslations(rows, languageLCID)
    /\ \E ids \in SeqsUpTo(TagIds, MaxAttached) :
        /\ \A i \in 1..Len(ids), j \in 1..Len(ids) : i # j => ids[i] # ids[j]
        /\ addedTags = [i \in 1..Len(ids) |-> AttachedTag(ids[i], languageLCID)]
    /\ allTags = <<>>
    /\ runs = 0
    /\ whitelist = <<>>

ResolveRun ==
    /\ runs < MaxRuns
    /\ SearchResolve
    /\ runs' = runs + 1
    /\ UNCHANGED <<tagVars, languageLCID, whitelist, programVars>>

NextResolve == ResolveRun

SpecResolve == InitResolve /\ [][NextResolve]_vars

(***************************************************************************)
(* Properties of the resolution step (SpecResolve)                         *)
(***************************************************************************)
Candidates == tags \o translatedTags
InList(t, list) == \E k \in 1..Len(list) : list[k] = t
\* the reducer's comparison: the same display name or the same identifier, where
\* === makes two absent identifiers the same
Collide(a, b) == a.name = b.name \/ a.id = b.id
\* two tags share a display name or an identifier that both have
Share(a, b) == a.name = b.name \/ (a.id # undefined /\ a.id = b.id)
\* candidates i and j share a name or an identifier, neither is attached, and i
\* has the lower rank
PreferredPair(i, j) ==
    /\ Share(Candidates[i], Candidates[j])
    /\ ~IsAdded(addedTags, Candidates[i])
    /\ ~IsAdded(addedTags, Candidates[j])
    /\ Candidates[i].preference < Candidates[j].preference

\* C1: the resolved list holds no two entries with the same identifier and no
\* two entries with the same display name.
C1_NoDuplicates ==
    runs >= 1 =>
        \A i \in 1..Len(allTags), j \in 1..Len(allTags) :
            i # j => /\ allTags[i].id # allTags[j].id
                     /\ allTags[i].name # allTags[j].name

\* candidates with a repeated name and with a repeated id went in, two entries came out
C1_Witness ==
    /\ runs >= 1
    /\ Len(allTags) = 2
    /\ \E i, j \in 1..Len(Candidates) :
        /\ i # j
        /\ Candidates[i].name = Candidates[j].name
        /\ Candidates[i].id # Candidates[j].id
    /\ \E i, j \in 1..Len(Candidates) :
        /\ i # j
        /\ Candidates[i].id = Candidates[j].id
        /\ Candidates[i].name # Candidates[j].name

\* C2: no entry of the resolved list has the identifier of an attached tag,
\* whatever its name and whatever it collides with.
C2_NoAttached ==
    runs >= 1 =>
        \A i \in 1..Len(allTags), j \in 1..Len(addedTags) :
            allTags[i].id # addedTags[j].id

\* a candidate with an attached id and a name no other candidate has was offered
\* next to a candidate that is kept
C2_Witness ==
    /\ runs >= 1
    /\ allTags # <<>>
    /\ \E i \in 1..Len(Candidates) :
        /\ IsAdded(addedTags, Candidates[i])
        /\ \A j \in 1..Len(Candidates) :
              j # i => Candidates[j].name # Candidates[i].name

C5_TranslationPreferred ==
    ( /\ runs >= 1
      /\ Len(tags) = 1
      /\ Len(translatedTags) = 1
      /\ addedTags = <<>>
      /\ tags[1].id = translatedTags[1].id
      /\ tags[1].preference # translatedTags[1].preference )
    => allTags = << IF tags[1].preference < translatedTags[1].preference
                    THEN tags[1] ELSE translatedTags[1] >>

\* "Sales" fetched first, its viewer-locale translation "Ventas" kept
C5_Witness ==
    /\ runs >= 1
    /\ Len(tags) = 1
    /\ Len(translatedTags) = 1
    /\ addedTags = <<>>
    /\ tags[1].id = translatedTags[1].id
    /\ tags[1].name = "Sales"
    /\ tags[1].preference = 3
    /\ translatedTags[1].name = "Ventas"
    /\ translatedTags[1].preference = 1
    /\ allTags = <<translatedTags[1]>>

MaxCreated == 1
MaxTimers == 2

Procs == { "init", "input", "add", "remove" }
NoReq == [kind |-> "none"]
NoLocal == [kind |-> "none"]
NoAddLog == [outcome |-> "none"]
NoRemoveLog == [outcome |-> "none"]

enus == <<"e","n","-","u","s">>
esmx == <<"e","s","-","m","x">>

\* what the page's global `name` (window.name) may hold
WindowNames == { "", "Sales" }

\* the backend at start: one tag, with a translation into the viewer's locale
InitialTagRows == { [id |-> "A", name |-> "Sales", lcid |-> enus] }
TranslationTable == { [id |-> "A", name |-> "Ventas", lcid |-> esmx] }
LanguageTable == { [id |-> "L1", lcid |-> esmx] }
\* the ids createRecord hands out
NewIds == <<"N1", "N2", "N3">>
CreatedRows == tagRows \ InitialTagRows

NameLowerCase == ("Sales" :> "sales") @@ ("Ventas" :> "ventas")
\* String.prototype.toLowerCase on a tag name
toLowerCaseName(n) == IF n \in DOMAIN NameLowerCase THEN NameLowerCase[n] ELSE n
\* OData `eq` on a text column: the backend compares without regard to case
BackendNameEq(field, value) == toLowerCaseName(field) = toLowerCaseName(value)

\* every order in which the backend may return the rows of a set
OrdersOf(S) ==
    { q \in [1..Cardinality(S) -> S] : \A i, j \in 1..Cardinality(S) : i # j => q[i] # q[j] }

\* ---- fragments shared by the handlers
Goto(p, n) ==
    /\ pc' = [pc EXCEPT ![p] = n.pc]
    /\ req' = [req EXCEPT ![p] = n.req]
    /\ local' = [local EXCEPT ![p] = n.local]

Done(p) == Goto(p, [pc |-> "idle", req |-> NoReq, local |-> NoLocal])

\* displayUserMessage(message): the <tags> element exists, so the error state
\* is set, and a timer is started (part_000:541-567)
ShowError ==
    /\ currentState' = "error"
    /\ timers' = timers + 1

\* no call of Add or Remove ends in this step
Quiet ==
    /\ addLog' = NoAddLog
    /\ removeLog' = NoRemoveLog

\* what a call of Add that ends in this step did
AddEnds(outcome, linked, appended, returned) ==
    /\ addLog' = [outcome |-> outcome, tagName |-> local["add"].tagName,
                  tagId |-> local["add"].tagId,
                  linked |-> linked, appended |-> appended, returned |-> returned]
    /\ removeLog' = NoRemoveLog

\* what a call of Remove that ends in this step did: outcome is what the call
\* gave ("true", "false" or "threw"), issued whether it sent the DELETE,
\* attached whether the id was in the attached set when the call began
RemoveEnds(outcome) ==
    /\ removeLog' = [outcome |-> outcome, tagId |-> local["remove"].tagId,
                     issued |-> pc["remove"] = "delete",
                     attached |-> local["remove"].attached]
    /\ addLog' = NoAddLog

\* the catch and finally blocks of the handler p
Fail(p) ==
    /\ Done(p)
    /\ ShowError
    /\ initialized' = (initialized \/ p = "init")

\* handler p throws: Add before it has linked anything, Remove before it has
\* filtered the attached set
Throw(p) ==
    /\ Fail(p)
    /\ IF p = "add" THEN AddEnds("failed", FALSE, FALSE, NoTag)
       ELSE IF p = "remove" THEN RemoveEnds("threw")
       ELSE Quiet

\* a handler may start while a timer can still be scheduled for its error
StartAllowed ==
    timers + Cardinality({p \in Procs : pc[p] # "idle"}) < MaxTimers

\* Relate: the POST .../<set>(<id>)/<relationship>/$ref as issued
RelateReq(esn, rel, tagId) == [kind |-> "relate", set |-> esn, rel |-> rel, tagId |-> tagId]

\* Add, from the end of the metadata block to its next await (lines 259-271)
AddAfterMetadata(l, esn, rel) ==
    IF l.tagId # undefined
    THEN LET t == NewTag(l.tagName, languageLCID, defaultScope, languageLCID, FALSE, l.tagId, entityId)
         IN  [pc |-> "relate", req |-> RelateReq(esn, rel, t.id), local |-> [l EXCEPT !.tag = t]]
    ELSE [pc |-> "getByName", req |-> [kind |-> "getByName", name |-> l.name], local |-> l]

\* GetAllByRecordId, from the end of the metadata block to its await (line 215)
FetchAfterMetadata(l, inter) ==
    [pc |-> "fetch", req |-> [kind |-> "fetch", intersect |-> inter], local |-> l]

\* Remove, from the end of the metadata block to its await (line 359)
RemoveAfterMetadata(l, esn, rel) ==
    [pc |-> "delete", req |-> [kind |-> "delete", set |-> esn, rel |-> rel, tagId |-> l.tagId],
     local |-> l]

\* where handler p continues once LoadEntityMetadata has returned
Proceed(p, esn, rel, inter) ==
    IF p = "add" THEN AddAfterMetadata(local[p], esn, rel)
    ELSE IF p = "remove" THEN RemoveAfterMetadata(local[p], esn, rel)
    ELSE FetchAfterMetadata(local[p], inter)

\* the state after TagInputControl.init: the service is constructed and
\* InitValues has run up to its first await
Init ==
    /\ tag = NoTag
    /\ tagCall = NoCall
    /\ tags = <<>>
    /\ translatedTags = <<>>
    /\ allTags = <<>>
    /\ runs = 0
    /\ whitelist = <<>>
    /\ languageLCID = ServiceLCID(ConfiguredLCID)
    /\ addedTags = undefinedList
    /\ entitySetName = undefined
    /\ manyToManyRelationshipName \in {undefined, "rel_configured"}
    /\ intersectEntityName \in {undefined, "intersect_configured"}
    /\ initialized = FALSE
    /\ currentState = ""
    /\ timers = 0
    /\ AutocompleteActivationThreshold = NoThreshold
    /\ pc = [p \in Procs |->
               IF p = "init"
               THEN IF intersectEntityName = undefined THEN "meta1" ELSE "fetch"
               ELSE "idle"]
    /\ req = [p \in Procs |->
               IF p = "init" /\ intersectEntityName # undefined
               THEN [kind |-> "fetch", intersect |-> intersectEntityName]
               ELSE NoReq]
    /\ local = [p \in Procs |-> NoLocal]
    /\ addLog = NoAddLog
    /\ removeLog = NoRemoveLog
    /\ tagRows = InitialTagRows
    /\ links \in SUBSET {r.id : r \in InitialTagRows}

\* ---- LoadEntityMetadata (part_001:390-409), awaited by handler p
\* the response to GET EntityDefinitions(...)?$select=EntitySetName
MetadataEntitySet(p) ==
    /\ pc[p] = "meta1"
    /\ \/ /\ entitySetName' = "accounts"
          /\ IF manyToManyRelationshipName = undefined
             THEN Goto(p, [pc |-> "meta2", req |-> NoReq, local |-> local[p]])
             ELSE Goto(p, Proceed(p, "accounts", manyToManyRelationshipName, intersectEntityName))
          /\ UNCHANGED controlVars /\ Quiet
       \/ \* the response carries no EntitySetName: CustomError
          /\ entitySetName' = undefined
          /\ Throw(p)
       \/ \* the request fails
          /\ UNCHANGED entitySetName
          /\ Throw(p)
    /\ UNCHANGED <<manyToManyRelationshipName, intersectEntityName>>
    /\ UNCHANGED <<tagVars, configVars, resolveVars, serviceVars, backendVars>>

\* the response to GET .../ManyToManyRelationships
MetadataRelationship(p) ==
    /\ pc[p] = "meta2"
    /\ \/ /\ manyToManyRelationshipName' = "rel_metadata"
          /\ intersectEntityName' = "intersect_metadata"
          /\ Goto(p, Proceed(p, entitySetName, "rel_metadata", "intersect_metadata"))
          /\ UNCHANGED controlVars /\ Quiet
       \/ \* no relationship with both names in the response, or the request fails
          /\ UNCHANGED <<manyToManyRelationshipName, intersectEntityName>>
          /\ Throw(p)
    /\ UNCHANGED entitySetName
    /\ UNCHANGED <<tagVars, configVars, resolveVars, serviceVars, backendVars>>

\* ---- GetAllByRecordId (part_001:207-238)
\* a variant of line 226 that translates whenever a translation came with the row
NeedsTranslation_Always(t, translatedName) == translatedName # ""

\* line 226: translatedName != "" && tag.lcid != this._languageLCID
NeedsTranslation(t, translatedName) == translatedName # "" /\ t.lcid # languageLCID

\* lines 218-231: the Tag built from one entity of the fetch result, where
\* trName is t['tag_translations.eax_name'] || "" and trLcid is
\* t['tag_translations.eax_languagelcid']
FetchedTag(e) ==
    LET t == NewTag(e.name, e.lcid, defaultScope, languageLCID, TRUE, e.id, entityId)
    IN  IF NeedsTranslation(t, e.trName)
        THEN Translate(t, e.trName, e.trLcid, languageLCID)
        ELSE t

\* the entity of the fetch result for one linked row of eax_tag: the outer
\* join adds the translation in the viewer's locale when there is one
LoadedTag(row) ==
    LET tr == {x \in TranslationTable : x.id = row.id /\ x.lcid = languageLCID}
    IN  IF tr # {}
        THEN LET x == CHOOSE x \in tr : TRUE
             IN  FetchedTag([name |-> row.name, lcid |-> row.lcid, id |-> row.id,
                             trName |-> x.name, trLcid |-> x.lcid])
        ELSE FetchedTag([name |-> row.name, lcid |-> row.lcid, id |-> row.id,
                         trName |-> "", trLcid |-> undefinedLcid])

\* the lists the fetch can yield: the linked tags in any order
FetchResults ==
    { [i \in 1..Len(q) |-> LoadedTag(q[i])] : q \in OrdersOf({r \in tagRows : r.id \in links}) }

\* a row without a locale makes new Tag(...) throw (lcid.toLowerCase())
FetchThrows == \E r \in tagRows : r.id \in links /\ r.lcid = undefinedLcid

\* InitValues (part_000:328-343): the response to the fetch of the attached tags
InitFetch ==
    /\ pc["init"] = "fetch"
    /\ \/ /\ req["init"].intersect # undefined
          /\ ~FetchThrows
          /\ \E result \in FetchResults : addedTags' = result
          /\ Done("init")
          /\ initialized' = TRUE
          /\ UNCHANGED <<currentState, timers>> /\ Quiet
       \/ /\ UNCHANGED addedTags
          /\ Throw("init")
    /\ UNCHANGED <<tagVars, configVars, resolveVars, languageLCID, metadataVars, backendVars>>

\* a variant of the callback that leaves the error state set
TimerFire_KeepsError ==
    /\ timers > 0
    /\ timers' = timers - 1
    /\ Quiet
    /\ UNCHANGED <<tagVars, configVars, resolveVars, serviceVars, metadataVars, initialized,
                   currentState, pc, req, local, backendVars>>

\* the callback of window.setTimeout in displayUserMessage
TimerFire ==
    /\ timers > 0
    /\ timers' = timers - 1
    /\ currentState' = ""
    /\ Quiet
    /\ UNCHANGED <<tagVars, configVars, resolveVars, serviceVars, metadataVars, initialized,
                   pc, req, local, backendVars>>

\* ---- onAdd (part_000:394-442) and TagManagerService.Add (part_001:252-283)
\* what the widget hands to onAdd: a typed name, or a tag of the backend picked
\* from the suggestions
AddPayloads ==
    { [value |-> n, id |-> undefined, persisted |-> FALSE] : n \in TagNames }
    \cup { [value |-> whitelist[i].value, id |-> whitelist[i].id, persisted |-> whitelist[i].persisted]
           : i \in 1..Len(whitelist) }

\* the 'add' event while the control is in the error state, or with a payload
\* that passes neither test of line 409: nothing is called
AddIgnored ==
    /\ initialized
    /\ pc["add"] = "idle"
    /\ { d \in AddPayloads :
            \/ currentState = "error"
            \/ ~( (d.id # undefined /\ d.persisted) \/ (d.id = undefined /\ d.value # undefined) )
       } # {}
    /\ UNCHANGED vars

\* a variant of line 270 that calls onAdd for every 'add' event
AddListens_Always(init) == TRUE

\* line 270: the callback of the 'add' event calls onAdd only when
\* _initialized is set
AddListens(init) == init

\* onAdd for the payload d, with n in window.name: the test of line 409, then
\* Add(value, id) up to its first await
AddCall(d, n) ==
    /\ (d.id # undefined /\ d.persisted) \/ (d.id = undefined /\ d.value # undefined)
    /\ d.id = undefined => Cardinality(CreatedRows) < MaxCreated
    /\ d.id # undefined => n = ""      \* `name` is read on the other path only
    /\ LET l == [kind |-> "add", tagName |-> d.value, tagId |-> d.id, name |-> n,
                 tag |-> NoTag, createdId |-> undefined]
       IN  IF entitySetName = undefined
           THEN Goto("add", [pc |-> "meta1", req |-> NoReq, local |-> l])
           ELSE Goto("add", AddAfterMetadata(l, entitySetName, manyToManyRelationshipName))

\* the 'add' event: onAdd calls Add(value, id), which runs to its first await
AddStart ==
    /\ AddListens(initialized)
    /\ pc["add"] = "idle"
    /\ StartAllowed
    /\ currentState # "error"
    /\ \E d \in AddPayloads, n \in WindowNames : AddCall(d, n)
    /\ Quiet
    /\ UNCHANGED <<tagVars, configVars, resolveVars, serviceVars, metadataVars, controlVars, backendVars>>

\* GetByName (part_001:183-200): the response to the query eax_name eq <name>,
\* top 1, then lines 265-271
AddGetByName ==
    /\ pc["add"] = "getByName"
    /\ LET matches == {r \in tagRows : BackendNameEq(r.name, toLowerCaseName(req["add"].name))}
       IN  \/ \* a row is found
              \E e \in matches :
                 IF e.lcid = undefinedLcid
                 THEN Throw("add")   \* new Tag: lcid.toLowerCase() of undefined
                 ELSE LET t == NewTag(e.name, e.lcid, defaultScope, languageLCID, TRUE, e.id, undefined)
                      IN  /\ Goto("add", [pc |-> "relate",
                                          req |-> RelateReq(entitySetName, manyToManyRelationshipName, t.id),
                                          local |-> [local["add"] EXCEPT !.tag = t]])
                          /\ UNCHANGED controlVars /\ Quiet
           \/ \* no row is found: Create issues createRecord
              /\ matches = {}
              /\ Goto("add", [pc |-> "create", req |-> [kind |-> "create", name |-> local["add"].tagName],
                              local |-> local["add"]])
              /\ UNCHANGED controlVars /\ Quiet
           \/ \* the query fails
              Throw("add")
    /\ UNCHANGED <<tagVars, configVars, resolveVars, serviceVars, metadataVars, backendVars>>

\* Create (part_001:314-328): the response to createRecord('eax_tag', ...)
AddCreate ==
    /\ pc["add"] = "create"
    /\ \/ /\ Cardinality(CreatedRows) < Len(NewIds)
          /\ LET newId == NewIds[Cardinality(CreatedRows) + 1]
             IN  /\ tagRows' = tagRows \cup {[id |-> newId, name |-> req["add"].name, lcid |-> undefinedLcid]}
                 /\ Goto("add", [pc |-> "language", req |-> [kind |-> "language", lcid |-> languageLCID],
                                 local |-> [local["add"] EXCEPT !.createdId = newId]])
          /\ UNCHANGED controlVars /\ Quiet
       \/ /\ UNCHANGED tagRows
          /\ Throw("add")
    /\ UNCHANGED <<tagVars, configVars, resolveVars, serviceVars, metadataVars, links>>

\* GetLanguageByLCID returns null when the query yields no row (line 430)
NoLanguage == [id |-> undefined, lcid |-> undefinedLcid]

\* what GetLanguageByLCID(lcid) can return: the row of the language, or null
\* when the backend holds no such row
LanguageResults(lcid) == {x \in LanguageTable : x.lcid = lcid} \cup {NoLanguage}

\* a variant of line 332 that lets every result pass
LanguageMissing_Never(language) == FALSE

\* line 332: !language || (language && !language.id)
LanguageMissing(language) == language = NoLanguage \/ language.id = undefined

\* GetLanguageByLCID (part_001:416-435) and lines 330-334
AddLanguage ==
    /\ pc["add"] = "language"
    /\ \/ \E language \in LanguageResults(req["add"].lcid) :
             IF LanguageMissing(language)
             THEN Throw("add")        \* CustomError
             ELSE /\ Goto("add", [pc |-> "relateLanguage",
                                  req |-> [kind |-> "relateLanguage",
                                           tagId |-> local["add"].createdId,
                                           languageId |-> language.id],
                                  local |-> local["add"]])
                  /\ UNCHANGED controlVars /\ Quiet
       \/ \* the query fails
          Throw("add")
    /\ UNCHANGED <<tagVars, configVars, resolveVars, serviceVars, metadataVars, backendVars>>

\* Relate(addedTagId, language.id, ...) and lines 336-342, 270-271
AddRelateLanguage ==
    /\ pc["add"] = "relateLanguage"
    /\ \/ \* 204: the tag now has the language, and its locale
          /\ \E lang \in {x \in LanguageTable : x.id = req["add"].languageId} :
                tagRows' = { IF r.id = req["add"].tagId THEN [r EXCEPT !.lcid = lang.lcid] ELSE r
                             : r \in tagRows }
          /\ LET t == NewTag(local["add"].tagName, languageLCID, defaultScope, languageLCID,
                             FALSE, local["add"].createdId, entityId)
             IN  Goto("add", [pc |-> "relate",
                              req |-> RelateReq(entitySetName, manyToManyRelationshipName, t.id),
                              local |-> [local["add"] EXCEPT !.tag = t]])
          /\ UNCHANGED controlVars /\ Quiet
       \/ \* another status (CustomError), or the request fails
          /\ UNCHANGED tagRows
          /\ Throw("add")
    /\ UNCHANGED <<tagVars, configVars, resolveVars, serviceVars, metadataVars, links>>

\* a variant of line 273 that leaves the flag as the constructor set it
Persisted_Unmarked(t) == t

\* line 273: tag.persisted = true
Persisted(t) == [t EXCEPT !.persisted = TRUE]

\* Relate(this._entityId, tag.id, ...) and lines 272-278: the response to the
\* POST that links the tag to the owning record
AddRelate ==
    /\ pc["add"] = "relate"
    /\ \/ \* 204: the link is created
          /\ req["add"].set # undefined
          /\ req["add"].rel # undefined
          /\ req["add"].tagId \notin links
          /\ links' = links \cup {req["add"].tagId}
          /\ LET t == Persisted(local["add"].tag)
             IN  IF addedTags = undefinedList
                 THEN \* this._addedTags.push of undefined: TypeError
                      /\ UNCHANGED addedTags
                      /\ Fail("add")
                      /\ AddEnds("failed", TRUE, FALSE, NoTag)
                 ELSE /\ addedTags' = Append(addedTags, t)
                      /\ AddEnds("ok", TRUE, TRUE, t)
                      /\ Done("add")
                      /\ UNCHANGED controlVars
       \/ \* another status (CustomError), or the request fails: no link
          /\ UNCHANGED <<links, addedTags>>
          /\ Throw("add")
    /\ UNCHANGED <<tagVars, configVars, resolveVars, languageLCID, metadataVars, tagRows>>

\* ---- onRemove (part_000:449-473) and TagManagerService.Remove (part_001:351-372)
\* what the widget hands to onRemove: a chip of an attached tag, a chip picked
\* from the suggestions (its Add may not have ended), or a chip that was never
\* persisted
RemovePayloads ==
    { [value |-> n, id |-> undefined, persisted |-> FALSE] : n \in TagNames }
    \cup (IF addedTags = undefinedList THEN {}
          ELSE { [value |-> addedTags[i].value, id |-> addedTags[i].id,
                  persisted |-> addedTags[i].persisted] : i \in 1..Len(addedTags) })
    \cup { [value |-> whitelist[i].value, id |-> whitelist[i].id,
            persisted |-> whitelist[i].persisted] : i \in 1..Len(whitelist) }

\* the attached set holds an entry with this id
IsAttached(tagId) ==
    /\ addedTags # undefinedList
    /\ \E i \in 1..Len(addedTags) : addedTags[i].id = tagId

\* a variant of line 453 that does not look at the error state
RemoveCalls_IgnoresError(d) == d.id # undefined /\ d.persisted

\* line 453: the test that lets onRemove call Remove
RemoveCalls(d) ==
    /\ currentState # "error"
    /\ d.id # undefined /\ d.persisted

\* the 'remove' event in the error state or for a chip without id: nothing is called
RemoveIgnored ==
    /\ pc["remove"] = "idle"
    /\ {d \in RemovePayloads : ~RemoveCalls(d)} # {}
    /\ UNCHANGED vars

\* the 'remove' event: onRemove calls Remove(id), which runs to its first await
RemoveStart ==
    /\ pc["remove"] = "idle"
    /\ StartAllowed
    /\ \E d \in RemovePayloads :
        /\ RemoveCalls(d)
        /\ LET l == [kind |-> "remove", tagId |-> d.id, attached |-> IsAttached(d.id)]
           IN  IF entitySetName = undefined
               THEN Goto("remove", [pc |-> "meta1", req |-> NoReq, local |-> l])
               ELSE Goto("remove", RemoveAfterMetadata(l, entitySetName, manyToManyRelationshipName))
    /\ UNCHANGED <<tagVars, configVars, resolveVars, serviceVars, metadataVars, controlVars, backendVars>>
    /\ Quiet

\* a variant of line 364 that drops nothing
FilterOut_KeepAll(list, tagId) == list

\* this._addedTags.filter(i => i.id != tagId)
FilterOut(list, tagId) == SelectSeq(list, LAMBDA t : t.id # tagId)

\* a variant of the DELETE that takes the tag record along with the link
RowsAfterUnlink_Cascade(rows, tagId) == {r \in rows : r.id # tagId}

\* the rows of eax_tag after DELETE <set>(<record>)/<relationship>/$ref?$id=
\* eax_tags(<tagId>) (line 359): the request names the link, not the record
RowsAfterUnlink(rows, tagId) == rows

\* the response to the DELETE of the link, then lines 364-366 and 455-457
RemoveDelete ==
    /\ pc["remove"] = "delete"
    /\ \/ \* 204: the link is gone
          /\ req["remove"].set # undefined
          /\ req["remove"].rel # undefined
          /\ links' = links \ {req["remove"].tagId}
          /\ tagRows' = RowsAfterUnlink(tagRows, req["remove"].tagId)
          /\ IF addedTags = undefinedList
             THEN /\ UNCHANGED addedTags       \* filter of undefined: TypeError
                  /\ Throw("remove")
             ELSE /\ addedTags' = FilterOut(addedTags, req["remove"].tagId)
                  /\ Done("remove")
                  /\ UNCHANGED controlVars
                  /\ RemoveEnds("true")
       \/ \* another success status: the set is filtered, Remove returns false and
          \* onRemove throws
          /\ req["remove"].set # undefined
          /\ req["remove"].rel # undefined
          /\ UNCHANGED <<links, tagRows>>
          /\ IF addedTags = undefinedList
             THEN /\ UNCHANGED addedTags       \* filter of undefined: TypeError
                  /\ Throw("remove")
             ELSE /\ addedTags' = FilterOut(addedTags, req["remove"].tagId)
                  /\ Fail("remove")
                  /\ RemoveEnds("false")
       \/ \* the request fails
          /\ UNCHANGED <<links, addedTags, tagRows>>
          /\ Throw("remove")
    /\ UNCHANGED <<tagVars, configVars, resolveVars, languageLCID, metadataVars>>

\* ---- onInput (part_000:350-386) and TagManagerService.SearchByName (part_001:104-143)
MaxThreshold == 2
\* what the property AutocompleteActivationThreshold may hold
ThresholdConfigs ==
    {NoThreshold} \cup {[kind |-> "number", raw |-> n] : n \in 0..MaxThreshold}

\* _searchActivationTreshold (part_000:234): raw || 2
searchActivationTreshold ==
    IF AutocompleteActivationThreshold.kind = "null" THEN 2
    ELSE IF AutocompleteActivationThreshold.raw = 0 THEN 2
    ELSE AutocompleteActivationThreshold.raw

\* e.detail.value || "": what the user has typed, as characters
InputValues ==
    { <<>>, <<" ">>, <<"a">>, <<"a", " ">>, <<"a", "s">>, <<"a", " ", "s">> }

\* the characters \s matches
Whitespace == { " " }
\* line 352: .replace(/\s/g, "")
RemoveWhitespace(value) == SelectSeq(value, LAMBDA c : c \notin Whitespace)

\* the characters of each tag name, in lower case
NameChars ==
    ("Sales" :> <<"s", "a", "l", "e", "s">>) @@ ("Ventas" :> <<"v", "e", "n", "t", "a", "s">>)
\* OData contains(eax_name, text), which does not regard case
NameContains(name, text) == Contains(NameChars[name], text)

\* SearchByName, from the attached tags being known to its next await (line 119)
TagsQuery(l) == [pc |-> "tags", req |-> [kind |-> "tags", text |-> l.text], local |-> l]

\* a variant of line 353 that does not look at the error state
InputSearches_IgnoresError(value) ==
    Len(RemoveWhitespace(value)) >= searchActivationTreshold

\* line 353: the test that lets the handler search
InputSearches(value) ==
    /\ currentState # "error"
    /\ Len(RemoveWhitespace(value)) >= searchActivationTreshold

\* onInput up to its first await, for the typed value: when the test passes
\* the whitelist is emptied and SearchByName runs to its first await
InputEvent(value) ==
    IF InputSearches(value)
    THEN /\ whitelist' = <<>>
         /\ LET l == [kind |-> "input", text |-> RemoveWhitespace(value), tags |-> <<>>]
            IN  IF addedTags = undefinedList
                THEN IF intersectEntityName = undefined
                     THEN Goto("input", [pc |-> "meta1", req |-> NoReq, local |-> l])
                     ELSE Goto("input", FetchAfterMetadata(l, intersectEntityName))
                ELSE Goto("input", TagsQuery(l))
    ELSE UNCHANGED <<whitelist, pc, req, local>>

\* the 'input' event that searches
InputStart ==
    /\ pc["input"] = "idle"
    /\ StartAllowed
    /\ \E value \in InputValues :
        /\ InputSearches(value)
        /\ InputEvent(value)
    /\ UNCHANGED <<tagVars, configVars, tags, translatedTags, allTags, runs, serviceVars, metadataVars,
                   controlVars, backendVars>>
    /\ Quiet

\* the 'input' event in the error state or with too short a text: nothing is
\* called
InputIgnored ==
    /\ pc["input"] = "idle"
    /\ {value \in InputValues : ~InputSearches(value)} # {}
    /\ UNCHANGED vars

\* SearchByName line 109: the response to the fetch of the attached tags
SearchFetch ==
    /\ pc["input"] = "fetch"
    /\ \/ /\ req["input"].intersect # undefined
          /\ ~FetchThrows
          /\ \E result \in FetchResults : addedTags' = result
          /\ Goto("input", TagsQuery(local["input"]))
          /\ UNCHANGED controlVars /\ Quiet
       \/ /\ UNCHANGED addedTags
          /\ Throw("input")
    /\ UNCHANGED <<tagVars, configVars, resolveVars, languageLCID, metadataVars, backendVars>>

\* lines 119-122: the response to the query of eax_tag
SearchTags ==
    /\ pc["input"] = "tags"
    /\ LET found == {r \in tagRows : NameContains(r.name, req["input"].text)}
       IN  \/ /\ \A r \in found : r.lcid # undefinedLcid
              /\ \E rows \in OrdersOf(found) :
                    /\ OrderedByName(rows)
                    /\ Goto("input", [pc |-> "translations",
                                      req |-> [kind |-> "translations", text |-> req["input"].text],
                                      local |-> [local["input"] EXCEPT
                                                    !.tags = MapTags(rows, languageLCID)]])
              /\ UNCHANGED controlVars /\ Quiet
           \/ \* the query fails, or new Tag throws on a row without locale
              Throw("input")
    /\ UNCHANGED <<tagVars, configVars, resolveVars, serviceVars, metadataVars, backendVars>>

\* lines 168-171, 125-138 and 369: the response to the query of
\* eax_tagtranslation, the resolution and the new whitelist
SearchTranslations ==
    /\ pc["input"] = "translations"
    /\ LET found == {r \in TranslationTable :
                        /\ NameContains(r.name, req["input"].text)
                        /\ r.lcid = languageLCID \/ Contains(r.lcid, LanguageCode(languageLCID))}
       IN  \/ /\ \E rows \in OrdersOf(found) :
                    /\ OrderedByName(rows)
                    /\ whitelist' = Resolve(local["input"].tags,
                                            MapTranslations(rows, languageLCID), addedTags)
              /\ Done("input")
              /\ UNCHANGED controlVars /\ Quiet
           \/ /\ UNCHANGED whitelist
              /\ Throw("input")
    /\ UNCHANGED <<tagVars, configVars, tags, translatedTags, allTags, runs, serviceVars, metadataVars,
                   backendVars>>

Next ==
    \/ \E p \in Procs : MetadataEntitySet(p)
    \/ \E p \in Procs : MetadataRelationship(p)
    \/ InitFetch
    \/ TimerFire
    \/ AddIgnored
    \/ AddStart
    \/ AddGetByName
    \/ AddCreate
    \/ AddLanguage
    \/ AddRelateLanguage
    \/ AddRelate
    \/ RemoveIgnored
    \/ RemoveStart
    \/ RemoveDelete
    \/ InputIgnored
    \/ InputStart
    \/ SearchFetch
    \/ SearchTags
    \/ SearchTranslations

Spec == Init /\ [][Next]_vars

\* ---- Add (TagManagerService.Add, part_001:252-283)
\* the backend holds a tag whose name matches the name passed to the call of Add
\* in flight
MatchExists == \E r \in tagRows : BackendNameEq(r.name, local["add"].tagName)

\* C8: Add issues the create call only when no id was supplied and the backend
\* holds no tag matching the tag name; with an id it issues neither the lookup
\* nor the create call; and a tag it links after the lookup alone is one that
\* matches the tag name.
C8_CreatesIffAbsent ==
    /\ pc["add"] = "create" =>
          local["add"].tagId = undefined /\ ~MatchExists
    /\ pc["add"] \in {"getByName", "create", "language", "relateLanguage"} =>
          local["add"].tagId = undefined
    /\ ( /\ pc["add"] = "relate"
         /\ local["add"].tagId = undefined
         /\ local["add"].createdId = undefined )
       => BackendNameEq(local["add"].tag.value, local["add"].tagName)

\* C9: in the state a successful call of Add leaves, the returned tag has an
\* identifier, is persisted and is in the attached set, and the owning record is
\* linked to it by a link this call created; and a step of a call of Add that
\* changes the attached set is the end of a successful call, appending the
\* tag that call returns.
C9_AddSucceeds ==
    /\ [] ( addLog.outcome = "ok" =>
              /\ addLog.returned.id # undefined
              /\ addLog.returned.persisted
              /\ InList(addLog.returned, addedTags)
              /\ addLog.returned.id \in links
              /\ addLog.linked )
    /\ [][ ( /\ pc["add"] # "idle"
             /\ pc'["add"] # pc["add"]
             /\ addedTags' # addedTags )
           => /\ addLog'.outcome = "ok"
              /\ addedTags' = Append(addedTags, addLog'.returned) ]_vars

\* Add("Ventas") has created the tag N1, linked it and returned it
C9_Witness ==
    /\ addLog.outcome = "ok"
    /\ addLog.tagId = undefined
    /\ addLog.returned.id = "N1"
    /\ addLog.returned.persisted
    /\ addedTags # undefinedList
    /\ InList(addLog.returned, addedTags)
    /\ "N1" \in links

\* C10: in the state a failed call of Add leaves, that call has created no link
\* and has not changed the attached set.
C10_FailureLeavesNothing ==
    addLog.outcome = "failed" => ~addLog.linked /\ ~addLog.appended

\* C11: once Add has created the tag record, the step that answers the language
\* lookup or the language link leaves that record in the backend, the attached
\* set and the links of the owning record as they were; the language link is
\* requested only for a language the backend holds, and the link to the owning
\* record only after the language link was made; in every other case the call
\* ends there as a failure that linked and appended nothing.
C11_LanguageAbsent ==
    [][ ( /\ pc["add"] \in {"language", "relateLanguage"}
          /\ pc'["add"] # pc["add"] )
        => /\ \E r \in tagRows' : r.id = local["add"].createdId
           /\ {r.id : r \in tagRows'} = {r.id : r \in tagRows}
           /\ UNCHANGED <<addedTags, links>>
           /\ \/ /\ pc["add"] = "language"
                 /\ pc'["add"] = "relateLanguage"
                 /\ \E x \in LanguageTable :
                       x.lcid = languageLCID /\ x.id = req'["add"].languageId
              \/ /\ pc["add"] = "relateLanguage"
                 /\ pc'["add"] = "relate"
              \/ /\ pc'["add"] = "idle"
                 /\ addLog'.outcome = "failed"
                 /\ ~addLog'.linked
                 /\ ~addLog'.appended ]_vars

\* Add("Ventas") created N1 and failed for the language: N1 is in the backend
\* without locale, linked to nothing and not attached
C11_Witness ==
    /\ addLog.outcome = "failed"
    /\ addLog.tagId = undefined
    /\ \E r \in tagRows : r.id = "N1" /\ r.lcid = undefinedLcid
    /\ "N1" \notin links
    /\ addedTags # undefinedList
    /\ \A i \in 1..Len(addedTags) : addedTags[i].id # "N1"

\* ---- Remove (TagManagerService.Remove, part_001:351-372)
\* C12: a step that ends a call of Remove and changes the attached set is one
\* in which the link removal succeeded: the link is gone and the handler shows
\* no error.
C12_FilterOnlyOnSuccess ==
    [][ ( /\ pc["remove"] = "delete"
          /\ pc'["remove"] = "idle"
          /\ addedTags' # addedTags )
        => /\ req["remove"].tagId \notin links'
           /\ UNCHANGED <<currentState, timers>> ]_vars

C14_RecordsNeverDeleted ==
    [][ \A r \in tagRows : \E x \in tagRows' : x.id = r.id /\ x.name = r.name ]_vars

\* Remove of the attached tag N1 succeeded: its link is gone, its record is not
C14_Witness ==
    /\ removeLog.outcome = "true"
    /\ removeLog.attached
    /\ removeLog.tagId = "N1"
    /\ "N1" \notin links
    /\ \E r \in tagRows : r.id = "N1"

(***************************************************************************)
(* SpecUpdate: TagManagerService.Update (part_001:381-383) and onUpdate     *)
(* (part_000:480-492), called in any state of the service.                  *)
(***************************************************************************)
\* a variant of Update that sends a request and resolves
Update_Implemented(tagId, name) ==
    [outcome |-> "resolved", requests |-> {[kind |-> "update", tagId |-> tagId, name |-> name]}]

\* Update(tagId, name): what the call gives and the requests it sends.  The
\* body is the throw alone (line 382), so the promise is rejected.
Update(tagId, name) == [outcome |-> "rejected", requests |-> {}]

\* the names onUpdate and other callers pass: onUpdate passes '' (line 483)
UpdateNames == {""} \cup TagNames

\* the service and the backend in any state, no request in flight
InitUpdate ==
    /\ tag = NoTag
    /\ tagCall = NoCall
    /\ tags = <<>>
    /\ translatedTags = <<>>
    /\ allTags = <<>>
    /\ runs = 0
    /\ whitelist = <<>>
    /\ languageLCID = ServiceLCID(ConfiguredLCID)
    /\ \/ addedTags = undefinedList
       \/ \E ids \in SeqsUpTo(TagIds, MaxAttached) :
            /\ \A i \in 1..Len(ids), j \in 1..Len(ids) : i # j => ids[i] # ids[j]
            /\ addedTags = [i \in 1..Len(ids) |-> AttachedTag(ids[i], languageLCID)]
    /\ entitySetName \in {undefined, "accounts"}
    /\ manyToManyRelationshipName = undefined
    /\ intersectEntityName = undefined
    /\ initialized = TRUE
    /\ AutocompleteActivationThreshold = NoThreshold
    /\ currentState \in {"", "error"}
    /\ timers = IF currentState = "error" THEN 1 ELSE 0
    /\ pc = [p \in Procs |-> "idle"]
    /\ req = [p \in Procs |-> NoReq]
    /\ local = [p \in Procs |-> NoLocal]
    /\ addLog = NoAddLog
    /\ removeLog = NoRemoveLog
    /\ tagRows = {[id |-> i, name |-> "Sales", lcid |-> enus] : i \in TagIds}
    /\ links \in SUBSET TagIds

\* the 'edit:updated' event: onUpdate calls Update(id, '') without awaiting
\* it, so its catch block never runs; or another caller calls Update
UpdateCall ==
    /\ \E tagId \in TagIds \cup {undefined}, name \in UpdateNames :
         LET result == Update(tagId, name)
         IN  /\ tagCall' = [op |-> "Update", tagId |-> tagId, name |-> name,
                            outcome |-> result.outcome, requests |-> result.requests]
             /\ req' = IF result.requests = {} THEN req
                       ELSE [req EXCEPT !["input"] = CHOOSE r \in result.requests : TRUE]
    /\ UNCHANGED <<tag, configVars, resolveVars, serviceVars, metadataVars, controlVars,
                   pc, local, addLog, removeLog, backendVars>>

NextUpdate == UpdateCall

SpecUpdate == InitUpdate /\ [][NextUpdate]_vars

\* C15: every call of Update, whatever its arguments and the state, is
\* rejected, sends no request, and leaves the attached set, the backend and
\* the requests in flight as they were.
C15_UpdateAlwaysFails ==
    /\ [] ( tagCall.op = "Update" =>
              tagCall.outcome = "rejected" /\ tagCall.requests = {} )
    /\ [][ tagCall'.op = "Update" => UNCHANGED <<addedTags, pc, req, backendVars>> ]_vars

\* Update('A', '') was called with A attached and linked: A is still attached
C15_Witness ==
    /\ tagCall.op = "Update"
    /\ tagCall.tagId = "A"
    /\ tagCall.name = ""
    /\ tagCall.outcome = "rejected"
    /\ addedTags # undefinedList
    /\ Len(addedTags) = 1
    /\ addedTags[1].id = "A"
    /\ "A" \in links

\* ---- Search (onInput, TagManagerService.SearchByName)
\* C16: no step of the input handler, from the event to the new whitelist,
\* changes the attached set, whether the initial load has completed, is still
\* in flight or has failed.
C16_SearchKeepsAttached ==
    [][ pc'["input"] # pc["input"] => UNCHANGED addedTags ]_vars

(***************************************************************************)
(* SpecInput: onInput (part_000:350-386) for every configuration of the      *)
(* activation threshold, with the attached tags loaded.                      *)
(***************************************************************************)
InitInput ==
    /\ tag = NoTag
    /\ tagCall = NoCall
    /\ tags = <<>>
    /\ translatedTags = <<>>
    /\ allTags = <<>>
    /\ runs = 0
    /\ whitelist = <<>>
    /\ languageLCID = ServiceLCID(ConfiguredLCID)
    /\ \E ids \in SeqsUpTo({r.id : r \in InitialTagRows}, MaxAttached) :
         addedTags = [i \in 1..Len(ids) |-> AttachedTag(ids[i], languageLCID)]
    /\ entitySetName = undefined
    /\ manyToManyRelationshipName = undefined
    /\ intersectEntityName = undefined
    /\ initialized = TRUE
    /\ AutocompleteActivationThreshold \in ThresholdConfigs
    /\ currentState \in {"", "error"}
    /\ timers = IF currentState = "error" THEN 1 ELSE 0
    /\ pc = [p \in Procs |-> "idle"]
    /\ req = [p \in Procs |-> NoReq]
    /\ local = [p \in Procs |-> NoLocal]
    /\ addLog = NoAddLog
    /\ removeLog = NoRemoveLog
    /\ tagRows = InitialTagRows
    /\ links = {}

\* the 'input' event with the typed value, whatever the handler does with it
OnInput ==
    /\ pc["input"] = "idle"
    /\ \E value \in InputValues :
        /\ InputSearches(value) => StartAllowed
        /\ InputEvent(value)
        /\ tagCall' = [op |-> "onInput", value |-> value]
    /\ UNCHANGED <<tag, configVars, tags, translatedTags, allTags, runs, serviceVars, metadataVars,
                   controlVars, backendVars, addLog, removeLog>>

NextInput == OnInput \/ SearchTags \/ SearchTranslations \/ TimerFire

SpecInput == InitInput /\ [][NextInput]_vars

\* the threshold as configured: the default when the property is not set
ConfiguredThreshold ==
    IF AutocompleteActivationThreshold.kind = "null" THEN 2
    ELSE AutocompleteActivationThreshold.raw

\* C17: an input event sends the search only when the error state is not set
\* and the typed value without its whitespace is at least as long as the
\* configured threshold, and it searches for that text; an event for which this
\* is not so sends nothing and leaves the whitelist as it was.
C17_SearchGuard ==
    [][ ( /\ pc["input"] = "idle"
          /\ tagCall'.op = "onInput"
          /\ tagCall' # tagCall \/ pc'["input"] # "idle" )
        => LET text == RemoveWhitespace(tagCall'.value)
               passes == currentState # "error" /\ Len(text) >= ConfiguredThreshold
           IN  /\ pc'["input"] # "idle" =>
                     /\ passes
                     /\ req'["input"] = [kind |-> "tags", text |-> text]
               /\ ~passes => UNCHANGED <<pc, req, whitelist, addedTags>> ]_vars

\* "a s" was typed with the threshold configured as 2: the search for "as" is
\* in flight
C17_Witness ==
    /\ tagCall = [op |-> "onInput", value |-> <<"a", " ", "s">>]
    /\ AutocompleteActivationThreshold = [kind |-> "number", raw |-> 2]
    /\ pc["input"] = "tags"
    /\ req["input"].text = <<"a", "s">>

\* "a " was typed with the threshold configured as 2: nothing is in flight and
\* the whitelist of the search before is still there
C17_WitnessIgnored ==
    /\ tagCall = [op |-> "onInput", value |-> <<"a", " ">>]
    /\ AutocompleteActivationThreshold = [kind |-> "number", raw |-> 2]
    /\ currentState = ""
    /\ pc["input"] = "idle"
    /\ addedTags = <<>>
    /\ whitelist # <<>>

\* ---- the error state (onAdd, onRemove)
\* a handler that is idle before the step and awaits a response after it
Starts(p) == pc[p] = "idle" /\ pc'[p] # "idle"

\* C18: while the error state is set no add or remove event makes a call: no
\* step taken in the error state starts the add or the remove handler, so
\* no lookup, create, link or unlink request goes out for such an event and
\* the attached set stays as it is.
C18_ErrorStateBlocks ==
    [][ currentState = "error" => ~Starts("add") /\ ~Starts("remove") ]_vars

\* the error state is set while the widget can raise an 'add' for a suggestion
\* and a 'remove' for an attached tag, and neither handler is running
C18_Witness ==
    /\ currentState = "error"
    /\ initialized
    /\ pc["add"] = "idle"
    /\ pc["remove"] = "idle"
    /\ \E d \in AddPayloads : d.id # undefined /\ d.persisted
    /\ \E d \in RemovePayloads : IsAttached(d.id) /\ d.persisted

\* ---- LoadEntityMetadata (part_001:390-409)
\* a call of LoadEntityMetadata has returned without throwing: the collection
\* name is known, and so is the relationship name, configured or resolved
Resolved == entitySetName # undefined /\ manyToManyRelationshipName # undefined

\* a resolution is in flight
Resolving == \E p \in Procs : pc[p] \in {"meta1", "meta2"}

\* handler p sends the first request of a resolution in this step
StartsResolution(p) == pc[p] # "meta1" /\ pc'[p] = "meta1"

\* C19: once a resolution has succeeded no handler starts another one,
\* whichever of the two names were configured.
C19_ResolvedOnce ==
    [][ Resolved => \A p \in Procs : ~StartsResolution(p) ]_vars

\* C20: while the metadata is not resolved and no resolution is in flight, a
\* call of Add or Remove that starts, and a search that has to load the
\* attached tags without knowing the intersect entity, starts a resolution.
C20_RetriedUntilResolved ==
    [][ (~Resolved /\ ~Resolving) =>
          /\ Starts("add") => StartsResolution("add")
          /\ Starts("remove") => StartsResolution("remove")
          /\ ( /\ Starts("input")
               /\ addedTags = undefinedList
               /\ intersectEntityName = undefined )
             => StartsResolution("input") ]_vars

(***************************************************************************)
(* SpecError: the failure paths of GetAllByRecordId, SearchByName, Add and  *)
(* Remove.  A call is followed through the points where it can fail, and    *)
(* the failure through the catch blocks around that point.  What the calls  *)
(* do to the service and the backend is in the actions of Spec.             *)
(***************************************************************************)
NoError == [type |-> "none"]

\* new CustomError(message) (ErrorDefinitions.ts:4-21)
CustomError(message) == [type |-> "CustomError", message |-> message, original |-> NoError]

\* a request the backend rejects, and a TypeError raised by a statement
Rejected(call) == [type |-> "Rejected", message |-> call, original |-> NoError]
TypeError(at) == [type |-> "TypeError", message |-> at, original |-> NoError]

\* a variant of TagManagerServiceError that keeps the message alone
TagManagerServiceError_NoOriginal(message, error) == CustomError(message)

\* new TagManagerServiceError(message, error) (ErrorDefinitions.ts:26-46)
TagManagerServiceError(message, error) ==
    IF error = NoError
    THEN [type |-> "Error", message |-> "TagManagerServiceError requires a message and error",
          original |-> NoError]
    ELSE [type |-> "TagManagerServiceError", message |-> message, original |-> error]

\* an error thrown inside nested try blocks: every catch block, innermost
\* first, throws a TagManagerServiceError around what it caught
RECURSIVE Rethrow(_, _)
Rethrow(error, catches) ==
    IF catches = <<>> THEN error
    ELSE Rethrow(TagManagerServiceError(Head(catches), error), Tail(catches))

\* a point where a method can fail: the try blocks around it (the message
\* keys of their catch blocks, innermost first) and the errors it can raise
FailurePoint(at, catches, failures) == [at |-> at, catches |-> catches, failures |-> failures]

\* LoadEntityMetadata (part_001:390-409) has no try block of its own
LoadEntityMetadataPoints(catches) ==
    <<FailurePoint("meta1", catches,
                   {Rejected("meta1"), CustomError("ErrEntitySetNotFoundKey")})>>
    \o IF manyToManyRelationshipName = undefined
       THEN <<FailurePoint("meta2", catches,
                           {Rejected("meta2"), CustomError("ErrManyToManyRelationshipNotFoundKey")})>>
       ELSE <<>>

\* GetAllByRecordId (part_001:207-238) inside the try blocks of its caller
GetAllByRecordIdPoints(outer) ==
    LET catches == <<"ErrGetAllTagsByRecordKey">> \o outer
    IN  (IF intersectEntityName = undefined THEN LoadEntityMetadataPoints(catches) ELSE <<>>)
        \o <<FailurePoint("fetch", catches, {Rejected("fetch"), TypeError("new Tag")})>>

\* SearchByName (part_001:104-143); SearchTranslationsByName (151-175) has
\* its own try block
SearchByNamePoints ==
    LET catches == <<"ErrSearchTagsKey">>
    IN  (IF addedTags = undefinedList THEN GetAllByRecordIdPoints(catches) ELSE <<>>)
        \o <<FailurePoint("tags", catches, {Rejected("tags"), TypeError("new Tag")}),
             FailurePoint("translations", <<"ErrSearchTagTranslationsKey">> \o catches,
                          {Rejected("translations"), TypeError("new Tag")})>>

\* Add (part_001:252-283) with Create (314-343) and Relate (296-305), which
\* have no try block, and GetByName (183-200) and GetLanguageByLCID (416-435),
\* which have one; found tells whether GetByName returns a tag with an id
AddPoints(tagId, found) ==
    LET catches == <<"ErrTagCreationRelationshipKey">>
    IN  (IF entitySetName = undefined THEN LoadEntityMetadataPoints(catches) ELSE <<>>)
        \o (IF tagId # undefined THEN <<>>
            ELSE <<FailurePoint("getByName", <<"ErrFindTagByNameKey">> \o catches,
                                {Rejected("getByName"), TypeError("new Tag")})>>
                 \o IF found THEN <<>>
                    ELSE <<FailurePoint("create", catches,
                                        {Rejected("create"), CustomError("ErrTagCreationKey")}),
                           FailurePoint("language", <<"ErrFindLCIDKey">> \o catches,
                                        {Rejected("language")}),
                           FailurePoint("languageFound", catches,
                                        {CustomError("ErrTagCreatedLCIDNotFoundKey")}),
                           FailurePoint("relateLanguage", catches,
                                        {Rejected("relateLanguage"),
                                         CustomError("ErrTagCreatedLanguageNotSetKey")})>>)
        \o <<FailurePoint("relate", catches,
                          {Rejected("relate"), CustomError("ErrTagRelationshipKey")}),
             FailurePoint("push", catches,
                          IF addedTags = undefinedList THEN {TypeError("push")} ELSE {})>>

\* Remove (part_001:351-372): without a tag id it returns false at once
RemovePoints(tagId) ==
    LET catches == <<"ErrTagRemovalKey">>
    IN  IF tagId = undefined THEN <<>>
        ELSE (IF entitySetName = undefined THEN LoadEntityMetadataPoints(catches) ELSE <<>>)
             \o <<FailurePoint("delete", catches, {Rejected("delete")}),
                  FailurePoint("filter", catches,
                               IF addedTags = undefinedList THEN {TypeError("filter")} ELSE {})>>

\* the ways a call with these failure points can end: it passes every point
\* and returns, or it fails at point k with one of the errors of that point,
\* which reaches the caller through the catch blocks around the point
Outcomes(points) ==
    { [failedAt |-> 0, failure |-> NoError, thrown |-> NoError] }
    \cup UNION { { [failedAt |-> k, failure |-> f,
                    thrown |-> Rethrow(f, points[k].catches)] : f \in points[k].failures } :
                  k \in DOMAIN points }

\* one call of a method of the service, recorded with the way it ended
ServiceCall(op, points) ==
    /\ \E o \in Outcomes(points) :
         tagCall' = [op |-> op,
                     points |-> [i \in DOMAIN points |-> points[i].at],
                     failedAt |-> o.failedAt, failure |-> o.failure, thrown |-> o.thrown]
    /\ UNCHANGED <<tag, configVars, resolveVars, serviceVars, metadataVars, controlVars,
                   processVars, backendVars>>

CallGetAllByRecordId == ServiceCall("GetAllByRecordId", GetAllByRecordIdPoints(<<>>))

CallSearchByName == ServiceCall("SearchByName", SearchByNamePoints)

CallAdd ==
    \E tagId \in TagIds \cup {undefined}, found \in BOOLEAN :
        ServiceCall("Add", AddPoints(tagId, found))

CallRemove == \E tagId \in TagIds \cup {undefined} : ServiceCall("Remove", RemovePoints(tagId))

\* the service in any state of its metadata and of its attached set
InitError ==
    /\ tag = NoTag
    /\ tagCall = NoCall
    /\ tags = <<>>
    /\ translatedTags = <<>>
    /\ allTags = <<>>
    /\ runs = 0
    /\ whitelist = <<>>
    /\ languageLCID = ServiceLCID(ConfiguredLCID)
    /\ \/ addedTags = undefinedList
       \/ \E ids \in SeqsUpTo(TagIds, MaxAttached) :
            /\ \A i \in 1..Len(ids), j \in 1..Len(ids) : i # j => ids[i] # ids[j]
            /\ addedTags = [i \in 1..Len(ids) |-> AttachedTag(ids[i], languageLCID)]
    /\ entitySetName \in {undefined, "accounts"}
    /\ manyToManyRelationshipName \in {undefined, "rel_configured"}
    /\ intersectEntityName \in {undefined, "intersect_configured"}
    /\ initialized = TRUE
    /\ AutocompleteActivationThreshold = NoThreshold
    /\ currentState = ""
    /\ timers = 0
    /\ pc = [p \in Procs |-> "idle"]
    /\ req = [p \in Procs |-> NoReq]
    /\ local = [p \in Procs |-> NoLocal]
    /\ addLog = NoAddLog
    /\ removeLog = NoRemoveLog
    /\ tagRows = InitialTagRows
    /\ links \in SUBSET {r.id : r \in InitialTagRows}

NextError == CallGetAllByRecordId \/ CallSearchByName \/ CallAdd \/ CallRemove

SpecError == InitError /\ [][NextError]_vars

\* the failure at the bottom of a chain of service errors
RECURSIVE Original(_)
Original(error) ==
    IF error.type = "TagManagerServiceError" THEN Original(error.original) ELSE error

ServiceOps == {"GetAllByRecordId", "SearchByName", "Add", "Remove"}

\* C21: a call of GetAllByRecordId, SearchByName, Add or Remove that fails at
\* any point, by a rejected request or by a domain error, throws a
\* TagManagerServiceError whose chain of originals ends in that failure; a
\* call returns only when it failed nowhere.
C21_FailuresWrapped ==
    tagCall.op \in ServiceOps =>
        /\ tagCall.failedAt # 0 =>
             /\ tagCall.thrown.type = "TagManagerServiceError"
             /\ Original(tagCall.thrown) = tagCall.failure
        /\ tagCall.thrown = NoError <=> tagCall.failedAt = 0

\* Add without a tag id found no tag, created one, and the lookup of the
\* language was rejected: the rejection reaches the caller inside two service
\* errors, that of GetLanguageByLCID inside that of Add
C21_Witness ==
    /\ tagCall.op = "Add"
    /\ tagCall.failedAt # 0
    /\ tagCall.failure = Rejected("language")
    /\ tagCall.thrown.type = "TagManagerServiceError"
    /\ tagCall.thrown.message = "ErrTagCreationRelationshipKey"
    /\ tagCall.thrown.original.type = "TagManagerServiceError"
    /\ tagCall.thrown.original.message = "ErrFindLCIDKey"
    /\ tagCall.thrown.original.original = Rejected("language")

\* ---- Tag: the preference after each call (SpecTag)
\* C22: after the constructor and after every Translate the preference is 1, 2
\* or 3 and is the rank of the tag's current locale for the viewer locale of
\* that call.
C22_PreferenceCurrent ==
    tagCall.op \in {"new", "Translate"} =>
        /\ tag.preference \in {1, 2, 3}
        /\ tag.preference = LocaleRank(tag.lcid, tagCall.userlcid)

\* C22 with the comparison CalculatePreference makes: the preference is 1, 2
\* or 3 and is the one computed from the current locale, never from an
\* earlier one
C22_PreferenceRecomputed ==
    tagCall.op \in {"new", "Translate"} =>
        /\ tag.preference \in {1, 2, 3}
        /\ tag.preference = CalculatePreference(tag.lcid, tagCall.userlcid)

\* ---- the attached set and the links of the backend (Spec)
\* no handler is between two of its steps
Quiescent == \A p \in Procs : pc[p] = "idle"

\* the attached set holds one entry for each tag linked to the record, and
\* nothing else
MirrorsLinks ==
    /\ \A i, j \in 1..Len(addedTags) : i # j => addedTags[i].id # addedTags[j].id
    /\ {addedTags[i].id : i \in 1..Len(addedTags)} = links

\* C23: in every state with no operation in flight and the attached tags
\* loaded, no identifier occurs twice in the attached set, every entry's tag
\* is linked to the record in the backend, and every linked tag has an entry.
C23_AttachedMirrorsLinks ==
    (Quiescent /\ addedTags # undefinedList) => MirrorsLinks

\* C23 step by step: once the attached set is loaded, every step keeps it equal
\* to the links of the backend, but the one in which Remove returns false
C23_MirrorKeptButByRemoveFalse ==
    [][ ( /\ addedTags # undefinedList
          /\ MirrorsLinks
          /\ removeLog'.outcome # "false" )
        => (addedTags' # undefinedList /\ MirrorsLinks') ]_vars

\* ---- the order of the resolved list (SpecResolve)
\* C24: the resolved list is in non-decreasing order of preference, and each of
\* its entries is one of the candidates, fetched or translated, as it came in.
C24_PreferenceOrdered ==
    runs >= 1 =>
        /\ \A i \in 1..Len(allTags), j \in 1..Len(allTags) :
              i < j => allTags[i].preference <= allTags[j].preference
        /\ \A k \in 1..Len(allTags) : InList(allTags[k], Candidates)

\* a fetched tag of rank 3 came in before a translation of rank 1, both were
\* kept, and the translation is first in the resolved list
C24_Witness ==
    /\ runs >= 1
    /\ Len(tags) >= 1
    /\ Len(translatedTags) >= 1
    /\ tags[1].preference = 3
    /\ translatedTags[1].preference = 1
    /\ Len(allTags) >= 2
    /\ allTags[1] = translatedTags[1]
    /\ InList(tags[1], allTags)

\* ---- the handlers of the widget's events (Spec)
EventHandlers == {"input", "add", "remove"}

\* C25: while a handler of an input, add or remove event is between the start
\* and the end of its asynchronous operation, no handler of such an event
\* starts.
C25_HandlersSerialized ==
    [][ (\E q \in EventHandlers : pc[q] # "idle")
        => \A p \in EventHandlers : ~Starts(p) ]_vars

\* C25 for a search in flight, where the widget is not read-only (onInput
\* sets no attribute): no handler starts before the search has ended
C25_NothingStartsDuringSearch ==
    [][ pc["input"] # "idle" => \A p \in EventHandlers : ~Starts(p) ]_vars

(***************************************************************************)
(* SpecSearch: onInput (part_000:350-386) called again while earlier calls  *)
(* of it are waiting for their responses.  The calls in flight are the      *)
(* sequence local["input"], oldest first; runs counts the searches started; *)
(* tagCall holds the text of the latest search started and the text of the  *)
(* search whose result is the whitelist.                                    *)
(***************************************************************************)
MaxSearches == 2

NoText == <<"none">>

\* the texts typed one after the other: "sa", then "as" in its place
SearchValues == { <<"s", "a">>, <<"a", "s">>, <<"a", " ", "s">> }

\* a variant of lines 361-364 in which abort() ends the calls in flight
InFlightAfterInput_Aborting(calls, call) == <<call>>

\* lines 361-364: the AbortController is created and aborted at once, and its
\* signal is handed to no request: the calls in flight stay in flight
InFlightAfterInput(calls, call) == Append(calls, call)

\* the rows the query of eax_tag yields for a text (part_001:113-119)
TagsFound(text) == {r \in tagRows : NameContains(r.name, text)}

\* the rows the query of eax_tagtranslation yields (part_001:155-168)
TranslationsFound(text) ==
    {r \in TranslationTable :
        /\ NameContains(r.name, text)
        /\ r.lcid = languageLCID \/ Contains(r.lcid, LanguageCode(languageLCID))}

\* the sequence without its i-th element
Without(calls, i) == SubSeq(calls, 1, i - 1) \o SubSeq(calls, i + 1, Len(calls))

InitSearch ==
    /\ tag = NoTag
    /\ tagCall = [op |-> "search", latest |-> NoText, shown |-> NoText]
    /\ tags = <<>>
    /\ translatedTags = <<>>
    /\ allTags = <<>>
    /\ runs = 0
    /\ whitelist = <<>>
    /\ languageLCID = ServiceLCID(ConfiguredLCID)
    /\ \E ids \in SeqsUpTo({"B"}, MaxAttached) :
         addedTags = [i \in 1..Len(ids) |-> AttachedTag(ids[i], languageLCID)]
    /\ entitySetName \in {undefined, "accounts"}
    /\ manyToManyRelationshipName = undefined
    /\ intersectEntityName = undefined
    /\ initialized = TRUE
    /\ AutocompleteActivationThreshold \in {NoThreshold, [kind |-> "number", raw |-> 1]}
    /\ currentState = ""
    /\ timers = 0
    /\ pc = [p \in Procs |-> "idle"]
    /\ req = [p \in Procs |-> NoReq]
    /\ local = [p \in Procs |-> IF p = "input" THEN <<>> ELSE NoLocal]
    /\ addLog = NoAddLog
    /\ removeLog = NoRemoveLog
    /\ tagRows = InitialTagRows
    /\ links = {}

\* the 'input' event with a value that passes the test of line 353: the
\* whitelist is emptied and SearchByName sends the query of eax_tag
SearchInput ==
    /\ runs < MaxSearches
    /\ timers + Len(local["input"]) < MaxTimers
    /\ \E value \in SearchValues :
        /\ InputSearches(value)
        /\ LET text == RemoveWhitespace(value)
               call == [n |-> runs + 1, text |-> text, pc |-> "tags", tags |-> <<>>]
           IN  /\ local' = [local EXCEPT !["input"] = InFlightAfterInput(local["input"], call)]
               /\ tagCall' = [tagCall EXCEPT !.latest = text, !.shown = NoText]
    /\ whitelist' = <<>>
    /\ runs' = runs + 1
    /\ pc' = [pc EXCEPT !["input"] = "searching"]
    /\ UNCHANGED <<tag, configVars, tags, translatedTags, allTags, serviceVars, metadataVars,
                   controlVars, req, addLog, removeLog, backendVars>>

\* the i-th call in flight ends: it leaves the sequence
CallEnds(i) ==
    /\ local' = [local EXCEPT !["input"] = Without(local["input"], i)]
    /\ pc' = [pc EXCEPT !["input"] = IF Len(local["input"]) = 1 THEN "idle" ELSE "searching"]

\* the catch block of the i-th call (lines 374-380)
CallFails(i) ==
    /\ CallEnds(i)
    /\ ShowError
    /\ UNCHANGED <<initialized, whitelist, tagCall>>

\* the response to the query of eax_tag of the i-th call (part_001:119-122)
SearchTagsResponse ==
    /\ \E i \in 1..Len(local["input"]) :
        /\ local["input"][i].pc = "tags"
        /\ \/ /\ \A r \in TagsFound(local["input"][i].text) : r.lcid # undefinedLcid
              /\ \E rows \in OrdersOf(TagsFound(local["input"][i].text)) :
                    /\ OrderedByName(rows)
                    /\ local' = [local EXCEPT !["input"][i] =
                                    [@ EXCEPT !.pc = "translations",
                                              !.tags = MapTags(rows, languageLCID)]]
              /\ UNCHANGED <<pc, controlVars, whitelist, tagCall>>
           \/ CallFails(i)
    /\ UNCHANGED <<tag, configVars, tags, translatedTags, allTags, runs, serviceVars, metadataVars,
                   req, addLog, removeLog, backendVars>>

\* the response to the query of eax_tagtranslation of the i-th call, the
\* resolution, and line 369: the result becomes the whitelist
SearchTranslationsResponse ==
    /\ \E i \in 1..Len(local["input"]) :
        /\ local["input"][i].pc = "translations"
        /\ \/ /\ \E rows \in OrdersOf(TranslationsFound(local["input"][i].text)) :
                    /\ OrderedByName(rows)
                    /\ whitelist' = Resolve(local["input"][i].tags,
                                            MapTranslations(rows, languageLCID), addedTags)
              /\ tagCall' = [tagCall EXCEPT !.shown = local["input"][i].text]
              /\ CallEnds(i)
              /\ UNCHANGED controlVars
           \/ CallFails(i)
    /\ UNCHANGED <<tag, configVars, tags, translatedTags, allTags, runs, serviceVars, metadataVars,
                   req, addLog, removeLog, backendVars>>

NextSearch == SearchInput \/ SearchTagsResponse \/ SearchTranslationsResponse \/ TimerFire

SpecSearch == InitSearch /\ [][NextSearch]_vars

\* C26: a search that starts empties the whitelist and leaves every search in
\* flight as it is, and the response of a search becomes the whitelist
\* whether or not a later search has started; so the whitelist can be the
\* result of a text older than the latest one searched (C26_Witness).
C26_SearchesNotCancelled ==
    [][ /\ runs' = runs + 1 =>
              /\ whitelist' = <<>>
              /\ Len(local'["input"]) = Len(local["input"]) + 1
              /\ SubSeq(local'["input"], 1, Len(local["input"])) = local["input"]
        /\ \A i \in 1..Len(local["input"]) :
              ( /\ local["input"][i].pc = "translations"
                /\ local'["input"] = Without(local["input"], i)
                /\ timers' = timers )
              => /\ tagCall'.shown = local["input"][i].text
                 /\ \E rows \in OrdersOf(TranslationsFound(local["input"][i].text)) :
                       whitelist' = Resolve(local["input"][i].tags,
                                            MapTranslations(rows, languageLCID), addedTags)
      ]_vars

\* "sa" was searched, then "as"; the response for "as" came first, the one for
\* "sa" after it: nothing is in flight and the whitelist is the result for "sa"
C26_Witness ==
    /\ runs = 2
    /\ local["input"] = <<>>
    /\ tagCall.latest = <<"a", "s">>
    /\ tagCall.shown = <<"s", "a">>
    /\ Len(whitelist) = 1
    /\ whitelist[1].name = "Sales"

(***************************************************************************)
(* SpecTimers: the control configured without relationship names and with   *)
(* one tag linked to the record, every handler of Spec, and the callbacks   *)
(* of window.setTimeout (part_000:559-566) run: a timer that has been       *)
(* started fires.                                                           *)
(***************************************************************************)
InitTimers ==
    /\ Init
    /\ manyToManyRelationshipName = undefined
    /\ intersectEntityName = undefined
    /\ links = {r.id : r \in InitialTagRows}

SpecTimers == InitTimers /\ [][Next]_vars /\ WF_vars(TimerFire)

\* C27: whenever the error state is set it is cleared later on, by the
\* callback of a timer; the control does not stay in the error state.
C27_ErrorCleared == (currentState = "error") ~> (currentState = "")

\* the initial load failed, which set the error state; the timer has fired,
\* and an add event that came after it is being processed
C27_Witness ==
    /\ initialized
    /\ addedTags = undefinedList
    /\ currentState = ""
    /\ timers = 0
    /\ pc["add"] # "idle"

(***************************************************************************)
(* SpecLoad: the 'add' events of the widget from the construction of the    *)
(* control on (part_000:267-271, 328-343).  tagCall holds the last 'add'    *)
(* event: its payload, whether _initialized was set when it came, and       *)
(* whether the user or addTags raised it.                                   *)
(***************************************************************************)
\* the payload of the 'add' event for a tag handed to addTags
Chip(t) == [value |-> t.value, id |-> t.id, persisted |-> t.persisted]

\* where the add handler stands after addTags(result) has raised its 'add'
\* events: the callback of line 270 runs for each chip as it is inserted
AfterAddTags(result) ==
    IF /\ result # <<>>
       /\ AddListens(initialized)
       /\ currentState # "error"
       /\ pc["add"] = "idle"
    THEN LET t == result[Len(result)]
             l == [kind |-> "add", tagName |-> t.value, tagId |-> t.id, name |-> "",
                   tag |-> NoTag, createdId |-> undefined]
         IN  IF entitySetName = undefined
             THEN [pc |-> "meta1", req |-> NoReq, local |-> l]
             ELSE AddAfterMetadata(l, entitySetName, manyToManyRelationshipName)
    ELSE [pc |-> pc["add"], req |-> req["add"], local |-> local["add"]]

\* InitValues (part_000:328-343): the response to the fetch of the attached
\* tags, addTags(tags) with the 'add' events it raises, and the finally block
LoadFetch ==
    /\ pc["init"] = "fetch"
    /\ \/ /\ req["init"].intersect # undefined
          /\ ~FetchThrows
          /\ \E result \in FetchResults :
               /\ addedTags' = result
               /\ tagCall' = IF result = <<>> THEN tagCall
                             ELSE [op |-> "add", data |-> Chip(result[Len(result)]),
                                   initialized |-> initialized, source |-> "addTags"]
               /\ LET n == AfterAddTags(result)
                  IN  /\ pc' = [pc EXCEPT !["init"] = "idle", !["add"] = n.pc]
                      /\ req' = [req EXCEPT !["init"] = NoReq, !["add"] = n.req]
                      /\ local' = [local EXCEPT !["init"] = NoLocal, !["add"] = n.local]
          /\ initialized' = TRUE
          /\ UNCHANGED <<currentState, timers>> /\ Quiet
       \/ /\ UNCHANGED <<addedTags, tagCall>>
          /\ Throw("init")
    /\ UNCHANGED <<tag, configVars, resolveVars, languageLCID, metadataVars, backendVars>>

\* an 'add' event raised by the user, at any time: the callback of line 270,
\* then onAdd up to the first await of Add
LoadAddEvent ==
    /\ pc["add"] = "idle"
    /\ \E d \in AddPayloads, n \in WindowNames :
        /\ tagCall' = [op |-> "add", data |-> d, initialized |-> initialized, source |-> "user"]
        /\ IF AddListens(initialized) /\ currentState # "error"
           THEN StartAllowed /\ AddCall(d, n)
           ELSE UNCHANGED <<pc, req, local>>
    /\ Quiet
    /\ UNCHANGED <<tag, configVars, resolveVars, serviceVars, metadataVars, controlVars, backendVars>>

NextLoad ==
    \/ \E p \in Procs : MetadataEntitySet(p)
    \/ \E p \in Procs : MetadataRelationship(p)
    \/ LoadFetch
    \/ LoadAddEvent
    \/ AddGetByName
    \/ AddCreate
    \/ AddLanguage
    \/ AddRelateLanguage
    \/ AddRelate
    \/ TimerFire

SpecLoad == Init /\ [][NextLoad]_vars

\* C28: while the initial load has not ended no call of Add is in flight, and
\* an 'add' event that came before its end, from the user or from the chips
\* the load inserts, has sent no lookup, no create and no link request,
\* whether the load has since succeeded or failed.
C28_NoAttachBeforeLoaded ==
    /\ ~initialized => (pc["add"] = "idle" /\ req["add"] = NoReq)
    /\ (tagCall.op = "add" /\ ~tagCall.initialized) =>
          /\ pc["add"] = "idle"
          /\ req["add"] = NoReq
          /\ tagRows = InitialTagRows

\* the user added "Ventas" while the load was in flight; the load has failed
\* since: nothing was created, nothing is in flight
C28_Witness ==
    /\ tagCall.op = "add"
    /\ tagCall.source = "user"
    /\ tagCall.data.value = "Ventas"
    /\ ~tagCall.initialized
    /\ initialized
    /\ addedTags = undefinedList
    /\ pc["add"] = "idle"

\* the load inserted the chip of the linked tag A: its 'add' event sent nothing
C28_WitnessChips ==
    /\ tagCall.op = "add"
    /\ tagCall.source = "addTags"
    /\ tagCall.data.id = "A"
    /\ ~tagCall.initialized
    /\ initialized
    /\ pc["add"] = "idle"
    /\ links = {"A"}

\* ---- candidates without identifier (SpecResolve)
\* C29: a candidate without identifier is set aside by display name only: the
\* resolved list holds an entry with its display name, itself or one kept
\* before it, whatever other candidates without identifier there are and
\* whatever is attached.
C29_AbsentIdByNameOnly ==
    runs >= 1 =>
        \A i \in 1..Len(Candidates) :
            Candidates[i].id = undefined =>
                \E k \in 1..Len(allTags) : allTags[k].name = Candidates[i].name

\* C29 with the comparison the reducer makes: a candidate without identifier
\* is missing from the resolved list only when a kept entry has its display
\* name or has no identifier either
C29_AbsentIdsCollide ==
    runs >= 1 =>
        \A i \in 1..Len(Candidates) :
            Candidates[i].id = undefined =>
                \E k \in 1..Len(allTags) :
                    allTags[k].name = Candidates[i].name \/ allTags[k].id = undefined

\* ---- candidates of equal rank (SpecResolve)
\* candidates i and j, i the earlier in concatenation order, have the same
\* rank and share a display name or an identifier; neither is attached, and
\* no two candidates are the same in every field
EqualRankPair(i, j) ==
    /\ i < j
    /\ Share(Candidates[i], Candidates[j])
    /\ ~IsAdded(addedTags, Candidates[i])
    /\ ~IsAdded(addedTags, Candidates[j])
    /\ Candidates[i].preference = Candidates[j].preference
    /\ \A m, n \in 1..Len(Candidates) : m # n => Candidates[m] # Candidates[n]

\* C30 as stated: of two colliding candidates of equal rank, neither attached,
\* the later one in concatenation order is never in the resolved list.
C30_EarlierAlwaysWins ==
    runs >= 1 =>
        \A i, j \in 1..Len(Candidates) :
            EqualRankPair(i, j) => ~InList(Candidates[j], allTags)

\* C30 as amended: of two colliding candidates of equal rank, neither
\* attached, the two are never both in the resolved list, and the earlier one
\* is missing from it only when another entry of no higher rank, kept before
\* it, has its display name or its identifier (two absent identifiers counting
\* as the same); the later one is in the list only in that case.
C30_EarlierWinsUnlessShadowed ==
    runs >= 1 =>
        \A i, j \in 1..Len(Candidates) :
            EqualRankPair(i, j) =>
                /\ ~(InList(Candidates[i], allTags) /\ InList(Candidates[j], allTags))
                /\ ~InList(Candidates[i], allTags) =>
                      \E k \in 1..Len(allTags) :
                          /\ allTags[k] # Candidates[j]
                          /\ allTags[k].preference <= Candidates[i].preference
                          /\ Collide(allTags[k], Candidates[i])

\* a fetched tag and a translation of the same rank with the same identifier
\* and different names: the fetched tag, earlier in the concatenation, is kept
C30_Witness ==
    /\ runs >= 1
    /\ \E i, j \in 1..Len(Candidates) :
        /\ EqualRankPair(i, j)
        /\ i <= Len(tags)
        /\ j > Len(tags)
        /\ Candidates[i].name # Candidates[j].name
        /\ InList(Candidates[i], allTags)
        /\ ~InList(Candidates[j], allTags)

(***************************************************************************)
(* SpecFetch: lines 218-231 of GetAllByRecordId on every fetch result       *)
(* within the bounds.  tagCall holds the entities of the result, addedTags  *)
(* the tags built from them.                                                *)
(***************************************************************************)
MaxFetched == 2

\* the entities the fetch can yield: a linked tag of any locale, with the
\* translation the outer join found for the viewer's locale (the filter of
\* FetchXMLQueries.ts:21-24 lets no other locale through; the stored locale
\* may differ from the viewer's in case), or without one
FetchEntities ==
    { e \in [ name : TagNames, lcid : RowLcids \cup {ConfiguredLCID}, id : TagIds,
              trName : {"", "Ventas"},
              trLcid : {languageLCID, ConfiguredLCID, undefinedLcid} ] :
        e.trLcid = undefinedLcid => e.trName = "" }

InitFetchMap ==
    /\ ProgramIdle
    /\ tag = NoTag
    /\ tagCall = NoCall
    /\ tags = <<>>
    /\ translatedTags = <<>>
    /\ allTags = <<>>
    /\ runs = 0
    /\ whitelist = <<>>
    /\ languageLCID = ServiceLCID(ConfiguredLCID)
    /\ addedTags = undefinedList

\* the response to the fetch: this._addedTags = entities.map(...); one load
\* is followed in each behaviour
FetchMap ==
    /\ tagCall = NoCall
    /\ \E rows \in SeqsUpTo(FetchEntities, MaxFetched) :
        /\ tagCall' = [op |-> "fetch", entities |-> rows]
        /\ addedTags' = [i \in 1..Len(rows) |-> FetchedTag(rows[i])]
    /\ UNCHANGED <<tag, resolveVars, languageLCID, programVars>>

NextFetch == FetchMap

SpecFetch == InitFetchMap /\ [][NextFetch]_vars

\* Translate was applied to the tag
Translated(t) == t.originallcid # undefinedLcid

\* the tag is the one the constructor built from the entity
AsFetched(t, e) ==
    /\ t.name = e.name
    /\ t.lcid = toLowerCase(e.lcid)
    /\ t.originallcid = undefinedLcid

\* C31 as stated: a fetched tag is translated exactly when its entity carries
\* a translation whose locale is not the viewer's; every other tag keeps its
\* name and its locale and has no originallcid.
C31_TranslatedIffTranslationLocaleDiffers ==
    tagCall.op = "fetch" =>
        \A i \in 1..Len(addedTags) :
            LET e == tagCall.entities[i]
                t == addedTags[i]
            IN  /\ Translated(t) <=>
                      (e.trName # "" /\ toLowerCase(e.trLcid) # languageLCID)
                /\ ~Translated(t) => AsFetched(t, e)

\* C31 as amended: a fetched tag is translated exactly when its entity carries
\* a translation with a name and the tag's own locale, in lower case, is not
\* the viewer's; it then has the translation's name and locale and its own
\* locale as originallcid; every other tag keeps its name and its locale and
\* has no originallcid.
C31_TranslatedIffTagLocaleDiffers ==
    tagCall.op = "fetch" =>
        \A i \in 1..Len(addedTags) :
            LET e == tagCall.entities[i]
                t == addedTags[i]
            IN  /\ Translated(t) <=>
                      (e.trName # "" /\ toLowerCase(e.lcid) # languageLCID)
                /\ Translated(t) =>
                      /\ t.name = e.trName
                      /\ t.lcid = toLowerCase(e.trLcid)
                      /\ t.originallcid = toLowerCase(e.lcid)
                /\ ~Translated(t) => AsFetched(t, e)

\* one result with a tag in en-us translated to "Ventas" and a tag stored as
\* es-MX that came with a translation and kept its own name
C31_Witness ==
    /\ tagCall.op = "fetch"
    /\ Len(addedTags) = 2
    /\ tagCall.entities[1].lcid = enus
    /\ tagCall.entities[1].name = "Sales"
    /\ addedTags[1].name = "Ventas"
    /\ addedTags[1].originallcid = enus
    /\ tagCall.entities[2].lcid = ConfiguredLCID
    /\ tagCall.entities[2].trName = "Ventas"
    /\ addedTags[2].name = "Sales"
    /\ ~Translated(addedTags[2])

(***************************************************************************)
(* SpecRace: the handlers of Spec with the fetch of the attached tags in    *)
(* two steps: the backend evaluates the query (BackendFetch), and the       *)
(* response, which holds the tags that were linked at that moment, arrives  *)
(* later (RaceInitFetch, RaceSearchFetch).                                  *)
(***************************************************************************)
\* the backend evaluates the fetch of handler p; the response is on its way
BackendFetch(p) ==
    /\ pc[p] = "fetch"
    /\ req[p].kind = "fetch"
    /\ req[p].intersect # undefined
    /\ ~FetchThrows
    /\ \E result \in FetchResults :
         req' = [req EXCEPT ![p] = [kind |-> "fetched", intersect |-> req[p].intersect,
                                    result |-> result]]
    /\ Quiet
    /\ UNCHANGED <<tagVars, configVars, resolveVars, serviceVars, metadataVars, controlVars,
                   pc, local, backendVars>>

\* InitValues (part_000:328-343): the response to the fetch arrives
RaceInitFetch ==
    /\ pc["init"] = "fetch"
    /\ \/ /\ req["init"].kind = "fetched"
          /\ addedTags' = req["init"].result
          /\ Done("init")
          /\ initialized' = TRUE
          /\ UNCHANGED <<currentState, timers>> /\ Quiet
       \/ /\ UNCHANGED addedTags
          /\ Throw("init")
    /\ UNCHANGED <<tagVars, configVars, resolveVars, languageLCID, metadataVars, backendVars>>

\* SearchByName line 109: the response to the fetch arrives
RaceSearchFetch ==
    /\ pc["input"] = "fetch"
    /\ \/ /\ req["input"].kind = "fetched"
          /\ addedTags' = req["input"].result
          /\ Goto("input", TagsQuery(local["input"]))
          /\ UNCHANGED controlVars /\ Quiet
       \/ /\ UNCHANGED addedTags
          /\ Throw("input")
    /\ UNCHANGED <<tagVars, configVars, resolveVars, languageLCID, metadataVars, backendVars>>

NextRace ==
    \/ \E p \in Procs : MetadataEntitySet(p)
    \/ \E p \in Procs : MetadataRelationship(p)
    \/ \E p \in Procs : BackendFetch(p)
    \/ RaceInitFetch
    \/ RaceSearchFetch
    \/ TimerFire
    \/ AddStart
    \/ AddGetByName
    \/ AddCreate
    \/ AddLanguage
    \/ AddRelateLanguage
    \/ AddRelate
    \/ RemoveStart
    \/ RemoveDelete
    \/ InputStart
    \/ SearchTags
    \/ SearchTranslations

SpecRace == Init /\ [][NextRace]_vars

\* the list holds an entry with this id
Holds(list, tagId) ==
    /\ list # undefinedList
    /\ \E i \in 1..Len(list) : list[i].id = tagId

\* the step ends a call of Remove for this id
Detaches(tagId) ==
    /\ pc["remove"] = "delete"
    /\ pc'["remove"] = "idle"
    /\ req["remove"].tagId = tagId

\* C32: a tag that is in the attached set stays in it until a call of Remove
\* for it ends: no response of a load of the attached tags, whenever its query
\* was evaluated, takes it out.
C32_AttachedUntilDetached ==
    [][ \A tagId \in TagIds \cup {NewIds[i] : i \in 1..Len(NewIds)} :
          (Holds(addedTags, tagId) /\ ~Detaches(tagId)) => Holds(addedTags', tagId) ]_vars

\* C33: the error flag is cleared only by the timer of the most recent error:
\* a step that takes currentState from "error" to "" leaves no timer pending
\* (the timers have the same delay, so the one that fires is the earliest).
C33_ClearedByLastTimer ==
    [][ (currentState = "error" /\ currentState' = "") => timers' = 0 ]_vars

\* the request needs no name that is still unresolved
NamesResolved(r) ==
    /\ r.kind \in {"relate", "delete"} => (r.set # undefined /\ r.rel # undefined)
    /\ r.kind = "fetch" => r.intersect # undefined

\* C34: every request in flight that creates or deletes a link carries a
\* resolved entity collection name and relationship name, and every fetch of
\* the attached tags a resolved intersect entity name.
C34_NamesResolvedWhenIssued ==
    \A p \in Procs : NamesResolved(req[p])

\* the part of C34 about links: a create or delete of a link in flight carries
\* both of its names
C34_LinkRequestsNamed ==
    \A p \in {"add", "remove"} :
        req[p].kind \in {"relate", "delete"} => (req[p].set # undefined /\ req[p].rel # undefined)

====
